---- MODULE Spec2Model ----
(***************************************************************************)
(* Sequential identifier allocation and entity lifecycle of the            *)
(* installation-company administration: the storage layer (DatabaseStorage *)
(* over the relational schema, MemStorage over in-process maps) and the    *)
(* HTTP routes in front of it, the dashboard's aggregation included.       *)
(*                                                                         *)
(* Text values (the code columns) are sequences of one-character strings,  *)
(* so that startsWith, substring, parseInt, toString and padStart are      *)
(* computed as the JavaScript runtime computes them.  Other JavaScript     *)
(* values are tagged records: Undefined, Null, Num(n), Str(s), Text(cs),   *)
(* List(l); Text carries a character sequence, Str an opaque string.       *)
(* Labor hours are counted in tenths of an hour (35 is 3.5 h).             *)
(***************************************************************************)
EXTENDS Integers, Sequences, FiniteSets

----------------------------------------------------------------------------
(* Bounds of the model. *)

\* serial ids (id counter values) handed out per table
MaxId == 2
\* calendar years the clock runs through
FirstYear == 2025
LastYear == 2026
\* concurrent request handlers
NumProcs == 2
\* records created per table where the lifecycle of a record is followed
MaxRecords == 1
\* materials created where the dashboard's stock list is followed
MaxMaterials == 6

Years == FirstYear..LastYear
Procs == 1..NumProcs
Ids == 1..MaxId

----------------------------------------------------------------------------
(* JavaScript values. *)

Undefined == [t |-> "undefined"]
Null == [t |-> "null"]
Num(n) == [t |-> "number", v |-> n]
Str(s) == [t |-> "string", v |-> s]
Text(cs) == [t |-> "text", v |-> cs]
List(l) == [t |-> "list", v |-> l]

\* ToBoolean: undefined, null, 0 and "" are falsy, everything else truthy
\* (an empty array is truthy).
Truthy(x) ==
    CASE x.t = "undefined" -> FALSE
      [] x.t = "null" -> FALSE
      [] x.t = "number" -> x.v # 0
      [] x.t = "string" -> x.v # ""
      [] x.t = "text" -> x.v # <<>>
      [] OTHER -> TRUE

\* a || b
OrElse(a, b) == IF Truthy(a) THEN a ELSE b

----------------------------------------------------------------------------
(* Strings as sequences of characters. *)

DigitChars == <<"0", "1", "2", "3", "4", "5", "6", "7", "8", "9">>

IsDigit(ch) == \E i \in 1..10 : DigitChars[i] = ch

DigitVal(ch) == (CHOOSE i \in 1..10 : DigitChars[i] = ch) - 1

\* Number.prototype.toString of a non-negative integer
RECURSIVE NatToString(_)
NatToString(n) ==
    IF n < 10 THEN <<DigitChars[n + 1]>>
    ELSE NatToString(n \div 10) \o <<DigitChars[(n % 10) + 1]>>

\* Number.prototype.toString of an integer
ToString(n) == IF n < 0 THEN <<"-">> \o NatToString(0 - n) ELSE NatToString(n)

\* String.prototype.padStart(width, ch): pads only a shorter string
RECURSIVE PadStart(_, _, _)
PadStart(s, width, ch) ==
    IF Len(s) >= width THEN s ELSE PadStart(<<ch>> \o s, width, ch)

\* String.prototype.startsWith
StartsWith(s, p) == Len(s) >= Len(p) /\ SubSeq(s, 1, Len(p)) = p

\* String.prototype.substring(start), start counted from 0
Substring(s, start) == SubSeq(s, start + 1, Len(s))

\* the longest prefix of s made of digits
RECURSIVE LeadingDigits(_)
LeadingDigits(s) ==
    IF s = <<>> \/ ~IsDigit(Head(s)) THEN <<>>
    ELSE <<Head(s)>> \o LeadingDigits(Tail(s))

RECURSIVE DigitsValue(_)
DigitsValue(ds) ==
    IF ds = <<>> THEN 0
    ELSE 10 * DigitsValue(SubSeq(ds, 1, Len(ds) - 1)) + DigitVal(ds[Len(ds)])

RECURSIVE SkipSpaces(_)
SkipSpaces(s) == IF s # <<>> /\ Head(s) = " " THEN SkipSpaces(Tail(s)) ELSE s

\* parseInt(s): leading white space, an optional sign, then the longest run
\* of decimal digits; NaN when there is no digit.  (The alphabet of the model
\* has no "x", so the hexadecimal form does not arise.)
ParseInt(s) ==
    LET t == SkipSpaces(s)
        signed == t # <<>> /\ Head(t) \in {"-", "+"}
        body == IF signed THEN Tail(t) ELSE t
        ds == LeadingDigits(body)
    IN  IF ds = <<>> THEN [nan |-> TRUE, v |-> 0]
        ELSE [nan |-> FALSE,
              v |-> IF signed /\ Head(t) = "-" THEN 0 - DigitsValue(ds)
                    ELSE DigitsValue(ds)]

----------------------------------------------------------------------------
(* The schema: one table per entity class, each with a code column. *)

Classes == {"Customer", "Material", "WorkOrder", "Invoice"}

YearScoped == {"Customer", "WorkOrder", "Invoice"}

\* the code column carries a unique index (.unique() in the table definition):
\* article_number, order_number and invoice_number do, customer_number does not
UniqueCode(c) == c \in {"Material", "WorkOrder", "Invoice"}

\* the letters a class's codes start with
Letters(c) ==
    CASE c = "Customer" -> <<"K", "L", "-">>
      [] c = "Material" -> <<"A", "R", "T", "-">>
      [] c = "WorkOrder" -> <<"W", "B", "-">>
      [] c = "Invoice" -> <<"F", "-">>

\* const prefix = `KL-${year}-` (and 'ART-' for materials)
Prefix(c, y) ==
    IF c = "Material" THEN Letters(c)
    ELSE Letters(c) \o ToString(y) \o <<"-">>

\* the width the generators pad the number to
PadWidth(c) == IF c = "Material" THEN 6 ELSE 4

\* `${prefix}0001` (and `${prefix}000001` for materials)
FirstCode(c, y) ==
    Prefix(c, y) \o (IF c = "Material" THEN <<"0", "0", "0", "0", "0", "1">>
                     ELSE <<"0", "0", "0", "1">>)

\* the request body fields the model follows; "code" stands for the class's
\* customerNumber / articleNumber / orderNumber / invoiceNumber.  A date is
\* Undefined or [t |-> "date", y |-> year, m |-> month], months counted from 0
\* as Date.prototype.getMonth counts them; amounts are counted in cents.
NoBody == [code |-> Undefined, status |-> Undefined, notes |-> Undefined,
           laborHours |-> Undefined, photos |-> Undefined,
           customerId |-> Undefined, stock |-> Undefined,
           minStock |-> Undefined, date |-> Undefined, amount |-> Undefined,
           materials |-> Undefined]

DateOf(y, m) == [t |-> "date", y |-> y, m |-> m]

\* the classes whose records refer to a customer: customer_id is an integer
\* column, not null, without a references clause
Referrers == {"WorkOrder", "Invoice"}

\* a create body with the required fields of its class in place
Draft(c) ==
    CASE c = "WorkOrder" -> [NoBody EXCEPT !.customerId = Num(1)]
      [] c = "Invoice" -> [NoBody EXCEPT !.customerId = Num(1),
                                         !.date = DateOf(FirstYear, 0),
                                         !.amount = Num(100)]
      [] OTHER -> NoBody

----------------------------------------------------------------------------
(* DatabaseStorage.  A table is a set of rows with distinct ids; next is   *)
(* the value the table's serial id sequence hands out next.  down says     *)
(* that the query fails (the catch branch of the method runs).             *)

Thrown == [t |-> "thrown"]

RowOf(rows, id) == {r \in rows : r.id = id}

\* select ... order by id desc limit 1
SelectLatest(rows) == {r \in rows : \A q \in rows : q.id <= r.id}

\* a generator that forgets to add one to the latest number
generateNumberNoIncrement(c, rows, y, down) ==
    IF down THEN FirstCode(c, y)
    ELSE LET result == SelectLatest(rows)
             prefix == Prefix(c, y)
         IN  IF result = {} THEN FirstCode(c, y)
             ELSE LET latestNumber == (CHOOSE r \in result : TRUE).code
                      number == ParseInt(Substring(latestNumber, Len(prefix)))
                  IN  IF /\ latestNumber # <<>>
                         /\ StartsWith(latestNumber, prefix)
                         /\ ~number.nan
                      THEN prefix \o PadStart(ToString(number.v), PadWidth(c), "0")
                      ELSE FirstCode(c, y)

\* generateCustomerNumber / generateArticleNumber / generateOrderNumber /
\* generateInvoiceNumber: the four methods differ in table, prefix and width
generateNumber(c, rows, y, down) ==
    IF down THEN FirstCode(c, y)
    ELSE LET result == SelectLatest(rows)
             prefix == Prefix(c, y)
         IN  IF result = {} THEN FirstCode(c, y)
             ELSE LET latestNumber == (CHOOSE r \in result : TRUE).code
                      number == ParseInt(Substring(latestNumber, Len(prefix)))
                  IN  IF /\ latestNumber # <<>>
                         /\ StartsWith(latestNumber, prefix)
                         /\ ~number.nan
                      THEN prefix \o PadStart(ToString(number.v + 1), PadWidth(c), "0")
                      ELSE FirstCode(c, y)

generateCustomerNumber(rows, y, down) == generateNumber("Customer", rows, y, down)
generateArticleNumber(rows, down) == generateNumber("Material", rows, FirstYear, down)
generateOrderNumber(rows, y, down) == generateNumber("WorkOrder", rows, y, down)
generateInvoiceNumber(rows, y, down) == generateNumber("Invoice", rows, y, down)

generate(c, rows, y, down) ==
    CASE c = "Customer" -> generateCustomerNumber(rows, y, down)
      [] c = "Material" -> generateArticleNumber(rows, down)
      [] c = "WorkOrder" -> generateOrderNumber(rows, y, down)
      [] c = "Invoice" -> generateInvoiceNumber(rows, y, down)

\* the value a column gets from an insert: its default when the field is
\* absent
OrDefault(x, d) == IF x = Undefined THEN d ELSE x

\* the row an insert stores: the generated code replaces any code of the
\* draft; a work order gets status || 'Ingepland', laborHours || 0,
\* notes || '', materials || [] and no photos (the insert statement names no
\* photos column);
\* stock and min_stock default to 0, an invoice's status to 'Concept'
DbNewRow(c, id, code, draft) ==
    CASE c = "WorkOrder" ->
           [id |-> id, code |-> code,
            status |-> OrElse(draft.status, Str("Ingepland")),
            laborHours |-> OrElse(draft.laborHours, Num(0)),
            notes |-> OrElse(draft.notes, Str("")),
            photos |-> Null,
            materials |-> OrElse(draft.materials, List(<<>>)),
            customerId |-> draft.customerId]
      [] c = "Material" ->
           [id |-> id, code |-> code,
            stock |-> OrDefault(draft.stock, Num(0)),
            minStock |-> OrDefault(draft.minStock, Num(0))]
      [] c = "Invoice" ->
           [id |-> id, code |-> code,
            customerId |-> draft.customerId,
            status |-> OrDefault(draft.status, Str("Concept")),
            date |-> draft.date,
            amount |-> draft.amount]
      [] OTHER -> [id |-> id, code |-> code]

\* a not-null column without default is given no value
NotNullViolated(c, draft) ==
    \/ c \in Referrers /\ draft.customerId \in {Undefined, Null}
    \/ c = "Invoice" /\ ( \/ draft.date \in {Undefined, Null}
                          \/ draft.amount \in {Undefined, Null}
                          \/ draft.status = Null )

\* an insert that answers with the values it was given in place of the row
\* it stored
DbInsertEchoesDraft(c, rows, next, code, draft, down) ==
    IF down THEN [rows |-> rows, next |-> next, out |-> Thrown]
    ELSE IF \/ UniqueCode(c) /\ \E r \in rows : r.code = code
            \/ NotNullViolated(c, draft)
    THEN [rows |-> rows, next |-> next + 1, out |-> Thrown]
    ELSE LET row == DbNewRow(c, next, code, draft)
         IN  [rows |-> rows \cup {row}, next |-> next + 1,
              out |-> IF c = "Material"
                      THEN [row EXCEPT !.stock = draft.stock,
                                       !.minStock = draft.minStock]
                      ELSE row]

\* insert ... returning: fails on a duplicate of a unique code and on a
\* missing not-null value; the serial value is consumed also by the failed
\* insert
DbInsert(c, rows, next, code, draft, down) ==
    IF down THEN [rows |-> rows, next |-> next, out |-> Thrown]
    ELSE IF \/ UniqueCode(c) /\ \E r \in rows : r.code = code
            \/ NotNullViolated(c, draft)
    THEN [rows |-> rows, next |-> next + 1, out |-> Thrown]
    ELSE LET row == DbNewRow(c, next, code, draft)
         IN  [rows |-> rows \cup {row}, next |-> next + 1, out |-> row]

\* getCustomer / getMaterial / getWorkOrder / getInvoice
DbGet(rows, id, down) ==
    IF down \/ RowOf(rows, id) = {} THEN Undefined
    ELSE CHOOSE r \in RowOf(rows, id) : TRUE

\* an update statement whose where clause is missing: every row is written
DbUpdatePlainNoWhere(c, rows, id, data, down) ==
    IF down \/ rows = {} THEN [rows |-> rows, out |-> Undefined]
    ELSE LET new == {IF data.code = Undefined THEN r
                     ELSE [r EXCEPT !.code = data.code.v] : r \in rows}
         IN  [rows |-> new, out |-> CHOOSE r \in new : TRUE]

\* set(data): every column the data names is written, the code column
\* included
SetColumns(c, old, data) ==
    LET coded == IF data.code = Undefined THEN old
                 ELSE [old EXCEPT !.code = data.code.v]
    IN  CASE c = "Material" ->
               [coded EXCEPT !.stock = OrDefault(data.stock, @),
                             !.minStock = OrDefault(data.minStock, @)]
          [] c = "Invoice" ->
               [coded EXCEPT !.customerId = OrDefault(data.customerId, @),
                             !.status = OrDefault(data.status, @),
                             !.date = OrDefault(data.date, @),
                             !.amount = OrDefault(data.amount, @)]
          [] OTHER -> coded

\* updateCustomer / updateMaterial / updateInvoice: update ... set(data)
\* where id = ... returning; a duplicate of a unique code and a null in a
\* not-null column fail the statement, and the method returns undefined
DbUpdatePlain(c, rows, id, data, down) ==
    IF down \/ RowOf(rows, id) = {} THEN [rows |-> rows, out |-> Undefined]
    ELSE LET old == CHOOSE r \in RowOf(rows, id) : TRUE
             new == SetColumns(c, old, data)
         IN  IF \/ UniqueCode(c) /\ \E r \in rows \ {old} : r.code = new.code
                \/ c = "Invoice" /\ Null \in {new.customerId, new.status,
                                              new.date, new.amount}
             THEN [rows |-> rows, out |-> Undefined]
             ELSE [rows |-> (rows \ {old}) \cup {new}, out |-> new]

\* an updateWorkOrder that tests if (data.laborHours) instead of
\* data.laborHours !== undefined: zero hours are not written
DbUpdateWorkOrderTruthyHours(rows, id, data, down) ==
    LET existingWorkOrder == DbGet(rows, id, down)
    IN  IF existingWorkOrder = Undefined THEN [rows |-> rows, out |-> Undefined]
        ELSE LET new == [existingWorkOrder EXCEPT
                           !.status = IF data.status = Undefined THEN @ ELSE data.status,
                           !.laborHours = IF ~Truthy(data.laborHours) THEN @
                                          ELSE data.laborHours,
                           !.notes = IF data.notes = Undefined THEN @ ELSE data.notes,
                           !.materials = IF data.materials = Undefined THEN @
                                         ELSE data.materials]
             IN  [rows |-> (rows \ {existingWorkOrder}) \cup {new}, out |-> new]

\* an updateWorkOrder that writes back the row it read with the new values
\* laid over it
DbWriteWorkOrderWholeRow(rows, id, existingWorkOrder, data, down) ==
    IF existingWorkOrder = Undefined \/ down \/ RowOf(rows, id) = {}
    THEN [rows |-> rows, out |-> Undefined]
    ELSE LET new == [existingWorkOrder EXCEPT
                       !.customerId = OrDefault(data.customerId, @),
                       !.status = IF data.status = Undefined THEN @ ELSE data.status,
                       !.laborHours = IF data.laborHours = Undefined THEN @
                                      ELSE data.laborHours,
                       !.notes = IF data.notes = Undefined THEN @ ELSE data.notes,
                       !.materials = IF data.materials = Undefined THEN @
                                     ELSE data.materials]
         IN  [rows |-> (rows \ RowOf(rows, id)) \cup {new}, out |-> new]

\* updateWorkOrder after the await of getWorkOrder: nothing for a missing
\* record, the record read when no column is given, and otherwise UPDATE
\* work_orders SET <the columns given> WHERE id = $1 RETURNING * on the row
\* as it is stored now (customer_id, status, labor_hours, notes, materials;
\* title, description and date are not followed by the model); order_number
\* and photos are no part of the statement; a null for customer_id or status
\* or a failing query ends in the catch, and the method returns undefined,
\* as it does when the row is gone
DbWriteWorkOrder(rows, id, existingWorkOrder, data, down) ==
    IF existingWorkOrder = Undefined THEN [rows |-> rows, out |-> Undefined]
    ELSE IF /\ data.status = Undefined
            /\ data.laborHours = Undefined
            /\ data.notes = Undefined
            /\ data.materials = Undefined
            /\ data.customerId = Undefined
    THEN [rows |-> rows, out |-> existingWorkOrder]
    ELSE IF down \/ Null \in {data.status, data.customerId} \/ RowOf(rows, id) = {}
    THEN [rows |-> rows, out |-> Undefined]
    ELSE LET stored == CHOOSE r \in RowOf(rows, id) : TRUE
             new == [stored EXCEPT
                       !.customerId = OrDefault(data.customerId, @),
                       !.status = IF data.status = Undefined THEN @ ELSE data.status,
                       !.laborHours = IF data.laborHours = Undefined THEN @
                                      ELSE data.laborHours,
                       !.notes = IF data.notes = Undefined THEN @ ELSE data.notes,
                       !.materials = IF data.materials = Undefined THEN @
                                     ELSE data.materials]
         IN  [rows |-> (rows \ {stored}) \cup {new}, out |-> new]

\* updateWorkOrder: reads the existing row, then writes the columns given
DbUpdateWorkOrder(rows, id, data, down) ==
    DbWriteWorkOrder(rows, id, DbGet(rows, id, down), data, down)

\* a delete on which the database cascades to the rows that name the customer
OnDeleteCascade(c, id, tabs) ==
    IF c # "Customer" THEN tabs
    ELSE [k \in Classes |->
            IF k \in Referrers THEN {r \in tabs[k] : r.customerId # Num(id)}
            ELSE tabs[k]]

\* a delete of a material that also takes the lines naming it off the work
\* orders
OnDeleteStripsLines(c, id, tabs) ==
    IF c # "Material" THEN tabs
    ELSE [tabs EXCEPT !["WorkOrder"] =
            { IF r.materials.t = "list"
              THEN [r EXCEPT !.materials.v =
                      SelectSeq(@, LAMBDA line : line.materialId # id)]
              ELSE r : r \in @ }]

\* what the removal of record id of class c does to the tables beyond the
\* delete statement itself: customer_id carries no references clause (and
\* MemStorage deletes from one map), so nothing
OnDelete(c, id, tabs) == tabs

\* a delete that reports success whatever it removed
DbDeleteAlwaysTrue(rows, id, down) ==
    IF down THEN [rows |-> rows, out |-> FALSE]
    ELSE [rows |-> rows \ RowOf(rows, id), out |-> TRUE]

\* deleteCustomer / deleteMaterial / deleteWorkOrder / deleteInvoice
DbDelete(rows, id, down) ==
    IF down THEN [rows |-> rows, out |-> FALSE]
    ELSE [rows |-> rows \ RowOf(rows, id), out |-> RowOf(rows, id) # {}]

----------------------------------------------------------------------------
(* MemStorage.  A map is a set of records with distinct ids; next is the   *)
(* class's id counter.                                                     *)

\* `KL-${String(id).padStart(5, '0')}`, `ART-${String(id).padStart(5, '0')}`,
\* `WB-${year}-${String(id).padStart(4, '0')}`, `F-${year}-${...padStart(4, '0')}`
MemCode(c, id, y) ==
    CASE c = "Customer" -> Letters(c) \o PadStart(ToString(id), 5, "0")
      [] c = "Material" -> Letters(c) \o PadStart(ToString(id), 5, "0")
      [] c = "WorkOrder" ->
           Letters(c) \o ToString(y) \o <<"-">> \o PadStart(ToString(id), 4, "0")
      [] c = "Invoice" ->
           Letters(c) \o ToString(y) \o <<"-">> \o PadStart(ToString(id), 4, "0")

\* { ...insert, id, code, status: insert.status || "Ingepland",
\*   laborHours: insert.laborHours || null, notes: insert.notes || null };
\* a material gets stock: insert.stock || null, minStock: insert.minStock ||
\* null, an invoice status: insert.status || "Concept"
MemNewRow(c, id, code, draft) ==
    CASE c = "WorkOrder" ->
           [id |-> id, code |-> code,
            status |-> OrElse(draft.status, Str("Ingepland")),
            laborHours |-> OrElse(draft.laborHours, Null),
            notes |-> OrElse(draft.notes, Null),
            photos |-> draft.photos,
            materials |-> OrElse(draft.materials, List(<<>>)),
            customerId |-> draft.customerId]
      [] c = "Material" ->
           [id |-> id, code |-> code,
            stock |-> OrElse(draft.stock, Null),
            minStock |-> OrElse(draft.minStock, Null)]
      [] c = "Invoice" ->
           [id |-> id, code |-> code,
            customerId |-> draft.customerId,
            status |-> OrElse(draft.status, Str("Concept")),
            date |-> draft.date,
            amount |-> draft.amount]
      [] OTHER -> [id |-> id, code |-> code]

\* a create that numbers the record by the size of the map
MemCreateBySize(c, rows, next, y, draft) ==
    LET id == Cardinality(rows) + 1
        row == MemNewRow(c, id, MemCode(c, id, y), draft)
    IN  [rows |-> rows \cup {row}, next |-> next + 1, out |-> row]

\* createCustomer / createMaterial / createWorkOrder / createInvoice:
\* const id = this.currentId++
MemCreate(c, rows, next, y, draft) ==
    LET row == MemNewRow(c, next, MemCode(c, next, y), draft)
    IN  [rows |-> rows \cup {row}, next |-> next + 1, out |-> row]

\* { ...existing, ...data }: every own key of data overwrites, a key whose
\* value is undefined included; keys are the own keys of data
MemMerge(c, existing, data, keys) ==
    LET coded == IF "code" \in keys /\ data.code # Undefined
                 THEN [existing EXCEPT !.code = data.code.v] ELSE existing
    IN  CASE c = "WorkOrder" ->
               [coded EXCEPT
                  !.status = IF "status" \in keys THEN data.status ELSE @,
                  !.laborHours = IF "laborHours" \in keys THEN data.laborHours ELSE @,
                  !.notes = IF "notes" \in keys THEN data.notes ELSE @,
                  !.photos = IF "photos" \in keys THEN data.photos ELSE @,
                  !.materials = IF "materials" \in keys THEN data.materials ELSE @,
                  !.customerId = IF "customerId" \in keys THEN data.customerId ELSE @]
          [] c = "Material" ->
               [coded EXCEPT
                  !.stock = IF "stock" \in keys THEN data.stock ELSE @,
                  !.minStock = IF "minStock" \in keys THEN data.minStock ELSE @]
          [] c = "Invoice" ->
               [coded EXCEPT
                  !.customerId = IF "customerId" \in keys THEN data.customerId ELSE @,
                  !.status = IF "status" \in keys THEN data.status ELSE @,
                  !.date = IF "date" \in keys THEN data.date ELSE @,
                  !.amount = IF "amount" \in keys THEN data.amount ELSE @]
          [] OTHER -> coded

\* updateCustomer / updateMaterial / updateWorkOrder / updateInvoice
MemUpdate(c, rows, id, data, keys) ==
    IF RowOf(rows, id) = {} THEN [rows |-> rows, out |-> Undefined]
    ELSE LET existing == CHOOSE r \in RowOf(rows, id) : TRUE
             updated == MemMerge(c, existing, data, keys)
         IN  [rows |-> (rows \ {existing}) \cup {updated}, out |-> updated]

\* deleteCustomer / ... : Map.delete
MemDelete(rows, id) ==
    [rows |-> rows \ RowOf(rows, id), out |-> RowOf(rows, id) # {}]

----------------------------------------------------------------------------
(* The storage the routes call (IStorage), by implementation. *)

\* the own keys of a parsed JSON body: the fields that are present
JsonKeys(body) == {k \in DOMAIN body : body[k] # Undefined}

\* createX of DatabaseStorage: generate the code, then insert
DbCreate(c, rows, next, y, draft, down) ==
    DbInsert(c, rows, next, generate(c, rows, y, down), draft, down)

DbUpdate(c, rows, id, data, down) ==
    IF c = "WorkOrder" THEN DbUpdateWorkOrder(rows, id, data, down)
    ELSE DbUpdatePlain(c, rows, id, data, down)

StorageCreate(impl, c, rows, next, y, draft, down) ==
    IF impl = "db" THEN DbCreate(c, rows, next, y, draft, down)
    ELSE MemCreate(c, rows, next, y, draft)

StorageUpdate(impl, c, rows, id, data, keys, down) ==
    IF impl = "db" THEN DbUpdate(c, rows, id, data, down)
    ELSE MemUpdate(c, rows, id, data, keys)

StorageDelete(impl, rows, id, down) ==
    IF impl = "db" THEN DbDelete(rows, id, down) ELSE MemDelete(rows, id)

\* getCustomer / ... of MemStorage: Map.get
MemGet(rows, id) ==
    IF RowOf(rows, id) = {} THEN Undefined ELSE CHOOSE r \in RowOf(rows, id) : TRUE

StorageGet(impl, rows, id, down) ==
    IF impl = "db" THEN DbGet(rows, id, down) ELSE MemGet(rows, id)

----------------------------------------------------------------------------
(* The routes: what a request does to a table and what it answers. *)

Res(status, body) == [status |-> status, body |-> body]

NoRes == [status |-> 0, body |-> Null]

\* app.post("/api/customers" | "/api/materials" | "/api/workorders" | "/api/invoices")
RoutePost(impl, c, rows, next, y, body, down) ==
    LET e == StorageCreate(impl, c, rows, next, y, body, down)
    IN  [rows |-> e.rows, next |-> e.next,
         res |-> IF e.out = Thrown THEN Res(500, Str("Error creating"))
                 ELSE Res(201, e.out)]

\* app.put("/api/customers/:id" | ...): the body goes to the storage as it is
RoutePut(impl, c, rows, id, body, down) ==
    LET e == StorageUpdate(impl, c, rows, id, body, JsonKeys(body), down)
    IN  [rows |-> e.rows,
         res |-> IF e.out = Undefined THEN Res(404, Str("not found"))
                 ELSE Res(200, e.out)]

\* app.delete("/api/customers/:id" | ...)
RouteDelete(impl, rows, id, down) ==
    LET e == StorageDelete(impl, rows, id, down)
    IN  [rows |-> e.rows,
         res |-> IF e.out THEN Res(204, Null) ELSE Res(404, Str("not found"))]

\* a status route that lets no finished work order change its status
RoutePatchStatusGuarded(impl, rows, id, body, down) ==
    IF ~Truthy(body.status)
    THEN [rows |-> rows, res |-> Res(400, Str("Status is required"))]
    ELSE IF \E r \in RowOf(rows, id) : r.status = Str("Voltooid")
    THEN [rows |-> rows, res |-> Res(400, Str("Work order is completed"))]
    ELSE LET e == StorageUpdate(impl, "WorkOrder", rows, id,
                                [NoBody EXCEPT !.status = body.status],
                                {"status"}, down)
         IN  [rows |-> e.rows,
              res |-> IF e.out = Undefined THEN Res(404, Str("not found"))
                      ELSE Res(200, e.out)]

\* app.patch("/api/workorders/:id/status")
RoutePatchStatus(impl, rows, id, body, down) ==
    IF ~Truthy(body.status)
    THEN [rows |-> rows, res |-> Res(400, Str("Status is required"))]
    ELSE LET e == StorageUpdate(impl, "WorkOrder", rows, id,
                                [NoBody EXCEPT !.status = body.status],
                                {"status"}, down)
         IN  [rows |-> e.rows,
              res |-> IF e.out = Undefined THEN Res(404, Str("not found"))
                      ELSE Res(200, e.out)]

\* a complete route that tests !laborHours: zero hours are rejected
RouteCompleteFalsyCheck(impl, rows, id, body, down) ==
    IF ~Truthy(body.laborHours)
    THEN [rows |-> rows, res |-> Res(400, Str("Labor hours are required"))]
    ELSE LET e == StorageUpdate(impl, "WorkOrder", rows, id,
                                [NoBody EXCEPT !.status = Str("Voltooid"),
                                               !.notes = body.notes,
                                               !.laborHours = body.laborHours,
                                               !.photos = body.photos],
                                {"status", "notes", "laborHours", "photos"}, down)
         IN  [rows |-> e.rows,
              res |-> IF e.out = Undefined THEN Res(404, Str("not found"))
                      ELSE Res(200, e.out)]

\* app.put("/api/workorders/:id/complete")
RouteComplete(impl, rows, id, body, down) ==
    IF body.laborHours = Undefined
    THEN [rows |-> rows, res |-> Res(400, Str("Labor hours are required"))]
    ELSE LET e == StorageUpdate(impl, "WorkOrder", rows, id,
                                [NoBody EXCEPT !.status = Str("Voltooid"),
                                               !.notes = body.notes,
                                               !.laborHours = body.laborHours,
                                               !.photos = body.photos],
                                {"status", "notes", "laborHours", "photos"}, down)
         IN  [rows |-> e.rows,
              res |-> IF e.out = Undefined THEN Res(404, Str("not found"))
                      ELSE Res(200, e.out)]

\* app.get("/api/customers/:id" | ...)
RouteGet(impl, rows, id, down) ==
    LET found == StorageGet(impl, rows, id, down)
    IN  IF found = Undefined THEN Res(404, Str("not found")) ELSE Res(200, found)

----------------------------------------------------------------------------
(* The dashboard: GET /api/dashboard/stats. *)

\* the rows of a table in ascending order of id
RECURSIVE AscendingById(_)
AscendingById(rows) ==
    IF rows = {} THEN <<>>
    ELSE LET first == CHOOSE r \in rows : \A q \in rows : r.id <= q.id
         IN  <<first>> \o AscendingById(rows \ {first})

Reverse(s) == [i \in 1..Len(s) |-> s[Len(s) + 1 - i]]

\* getAllCustomers / ... of DatabaseStorage: order by id desc, and [] when
\* the query fails
DbGetAll(rows, down) == IF down THEN <<>> ELSE Reverse(AscendingById(rows))

\* getAllCustomers / ... of MemStorage: Array.from(map.values()), the order
\* of insertion, which is the order of the ids
MemGetAll(rows) == AscendingById(rows)

StorageGetAll(impl, rows, down) ==
    IF impl = "db" THEN DbGetAll(rows, down) ELSE MemGetAll(rows)

Months == 0..11

\* new Date(inv.date): getFullYear() and getMonth(); new Date(null) is the
\* epoch, new Date(undefined) an invalid date that equals no month
InvDate(date) ==
    CASE date.t = "date" -> [y |-> date.y, m |-> date.m]
      [] date.t = "null" -> [y |-> 1970, m |-> 0]
      [] OTHER -> [y |-> 0 - 1, m |-> 0 - 1]

\* a revenue filter that forgets the status
CountsAsRevenueAnyStatus(inv, month, currentYear) ==
    /\ InvDate(inv.date).m = month
    /\ InvDate(inv.date).y = currentYear

\* the filter of the monthly revenue
CountsAsRevenue(inv, month, currentYear) ==
    /\ InvDate(inv.date).m = month
    /\ InvDate(inv.date).y = currentYear
    /\ inv.status # Str("Concept")

\* .reduce((sum, inv) => sum + (inv.amount || 0), 0) over the filtered list
RECURSIVE RevenueOf(_, _, _)
RevenueOf(invoices, month, currentYear) ==
    IF invoices = <<>> THEN 0
    ELSE LET inv == invoices[Len(invoices)]
             sum == RevenueOf(SubSeq(invoices, 1, Len(invoices) - 1), month, currentYear)
         IN  IF CountsAsRevenue(inv, month, currentYear)
             THEN sum + OrElse(inv.amount, Num(0)).v
             ELSE sum

\* Array(12).fill(0).map((_, month) => ...)
MonthlyRevenue(invoices, currentYear) ==
    [month \in Months |-> RevenueOf(invoices, month, currentYear)]

\* .slice(0, 5)
LowStockCap == 5

\* a stock filter that compares with < instead of <=
IsLowStockStrict(m) ==
    /\ m.stock # Null
    /\ m.minStock # Null
    /\ m.stock.t = "number" /\ m.minStock.t = "number"
    /\ m.stock.v < m.minStock.v

\* m.stock !== null && m.minStock !== null && m.stock <= m.minStock (a
\* comparison with undefined is false)
IsLowStock(m) ==
    /\ m.stock # Null
    /\ m.minStock # Null
    /\ m.stock.t = "number" /\ m.minStock.t = "number"
    /\ m.stock.v <= m.minStock.v

\* Array.prototype.slice(0, n)
Slice(list, n) == SubSeq(list, 1, IF Len(list) < n THEN Len(list) ELSE n)

\* materials.filter(...).slice(0, 5)
LowStockMaterials(materials) == Slice(SelectSeq(materials, IsLowStock), LowStockCap)

\* list.filter(x => x.status === s).length
CountStatus(list, s) == Len(SelectSeq(list, LAMBDA x : x.status = Str(s)))

\* workOrdersByStatus: the statuses the dashboard counts work orders by
WorkOrdersByStatus(workOrders) ==
    [nieuw |-> CountStatus(workOrders, "Nieuw"),
     inBehandeling |-> CountStatus(workOrders, "In behandeling"),
     voltooid |-> CountStatus(workOrders, "Voltooid")]

\* invoicesByStatus
InvoicesByStatus(invoices) ==
    [concept |-> CountStatus(invoices, "Concept"),
     verzonden |-> CountStatus(invoices, "Verzonden"),
     betaald |-> CountStatus(invoices, "Betaald"),
     teLaat |-> CountStatus(invoices, "Te laat")]

\* new Date(inv.date).getTime(), in months (every invoice of the model
\* carries a date)
TimeOf(inv) == InvDate(inv.date).y * 12 + InvDate(inv.date).m

\* one step of the stable sort by descending date: x goes behind the
\* invoices that are not older
RECURSIVE InsertByDate(_, _)
InsertByDate(sorted, x) ==
    IF sorted = <<>> THEN <<x>>
    ELSE IF TimeOf(Head(sorted)) >= TimeOf(x)
    THEN <<Head(sorted)>> \o InsertByDate(Tail(sorted), x)
    ELSE <<x>> \o sorted

\* .sort((a, b) => new Date(b.date).getTime() - new Date(a.date).getTime())
RECURSIVE SortByDateDesc(_)
SortByDateDesc(invoices) ==
    IF invoices = <<>> THEN <<>>
    ELSE InsertByDate(SortByDateDesc(SubSeq(invoices, 1, Len(invoices) - 1)),
                      invoices[Len(invoices)])

\* [...invoices].sort(...).slice(0, 5)
RecentInvoices(invoices) == Slice(SortByDateDesc(invoices), 5)

\* the statistics of the four lists
DashboardStats(workOrders, customers, materials, invoices, currentYear) ==
    [totalWorkOrders |-> Len(workOrders),
     totalCustomers |-> Len(customers),
     totalMaterials |-> Len(materials),
     totalInvoices |-> Len(invoices),
     workOrdersByStatus |-> WorkOrdersByStatus(workOrders),
     invoicesByStatus |-> InvoicesByStatus(invoices),
     recentInvoices |-> RecentInvoices(invoices),
     lowStockMaterials |-> LowStockMaterials(materials),
     monthlyRevenue |-> MonthlyRevenue(invoices, currentYear)]

\* app.get("/api/dashboard/stats")
RouteDashboard(impl, tabs, currentYear, down) ==
    Res(200, DashboardStats(StorageGetAll(impl, tabs["WorkOrder"], down),
                            StorageGetAll(impl, tabs["Customer"], down),
                            StorageGetAll(impl, tabs["Material"], down),
                            StorageGetAll(impl, tabs["Invoice"], down),
                            currentYear))

----------------------------------------------------------------------------
(* The client's pages. *)

\* ToNumber of the values a comparison meets: null is 0
ToNumber(x) == IF x.t = "number" THEN x.v ELSE 0

\* a <= b and a < b of JavaScript: false when an operand is undefined (NaN)
JsLe(a, b) == a # Undefined /\ b # Undefined /\ ToNumber(a) <= ToNumber(b)
JsLt(a, b) == a # Undefined /\ b # Undefined /\ ToNumber(a) < ToNumber(b)

\* MaterialsPage.getStockStatus
getStockStatus(material) ==
    IF JsLe(material.stock, Num(0)) THEN "Niet op voorraad"
    ELSE IF JsLt(material.stock, material.minStock) THEN "Bijna op"
    ELSE "Op voorraad"

\* the low-stock filter of the dashboard page's fallback:
\* m.stock && m.minStock && m.stock <= m.minStock
IsLowStockFallback(m) ==
    /\ Truthy(m.stock)
    /\ Truthy(m.minStock)
    /\ JsLe(m.stock, m.minStock)

\* DashboardPage, the catch branch of the stats queryFn: the statistics
\* computed in the browser from the four list endpoints
FallbackStats(workorders, customers, materials, invoices, currentYear) ==
    [totalWorkOrders |-> Len(workorders),
     totalCustomers |-> Len(customers),
     totalMaterials |-> Len(materials),
     totalInvoices |-> Len(invoices),
     workOrdersByStatus |->
       [nieuw |-> CountStatus(workorders, "Nieuw"),
        inBehandeling |-> CountStatus(workorders, "In behandeling"),
        voltooid |-> CountStatus(workorders, "Voltooid")],
     invoicesByStatus |->
       [concept |-> CountStatus(invoices, "Concept"),
        verzonden |-> CountStatus(invoices, "Verzonden"),
        betaald |-> CountStatus(invoices, "Betaald"),
        teLaat |-> CountStatus(invoices, "Te laat")],
     recentInvoices |-> Slice(SortByDateDesc(invoices), 5),
     lowStockMaterials |-> Slice(SelectSeq(materials, IsLowStockFallback), 5),
     monthlyRevenue |-> [month \in Months |-> RevenueOf(invoices, month, currentYear)]]

\* app.get("/api/customers" | "/api/materials" | "/api/workorders" | "/api/invoices")
RouteGetAll(impl, rows, down) == Res(200, StorageGetAll(impl, rows, down))

----------------------------------------------------------------------------
(* State. *)

VARIABLES
    impl,      \* the storage implementation behind the routes: "db" or "mem"
    focus,     \* the entity classes the run's requests address
    year,      \* new Date().getFullYear()
    down,      \* the storage's queries fail
    tables,    \* class -> the rows (records) of its table (map)
    nextId,    \* class -> next value of the serial id (id counter)
    pending,   \* handler -> its create call between the read and the insert
    req,       \* handler -> the request it handled last
    resp,      \* handler -> the response to that request
    issued,    \* class -> the codes and ids create assigned, in order, with
               \* the year
    run,       \* class -> number of creates since the table was empty with
               \* nothing but creates of one year since; -1 otherwise
    twin,      \* a MemStorage constructed next to the storage and handed
               \* the same calls: its maps and its id counters
    client     \* the state of the browser component a run follows

vars == <<impl, focus, year, down, tables, nextId, pending, req, resp, issued, run,
          twin, client>>

Idle == [phase |-> "idle"]

NoReq == [op |-> "none"]

Request(op, c, id, body) == [op |-> op, c |-> c, id |-> id, body |-> body]

\* no component of the client is followed
NoView == [view |-> "none"]

\* the server after construction: empty tables, serial ids and id counters
\* at 1
InitServer ==
    /\ tables = [c \in Classes |-> {}]
    /\ nextId = [c \in Classes |-> 1]
    /\ pending = [p \in Procs |-> Idle]
    /\ req = [p \in Procs |-> NoReq]
    /\ resp = [p \in Procs |-> NoRes]
    /\ issued = [c \in Classes |-> <<>>]
    /\ run = [c \in Classes |-> 0]
    /\ year = FirstYear
    /\ down = FALSE
    /\ twin = [tables |-> [c \in Classes |-> {}], nextId |-> [c \in Classes |-> 1]]

InitStore == InitServer /\ client = NoView

\* what a handled request leaves behind, the tables aside: r is the route's
\* result
Recorded(p, op, c, id, body, r, next) ==
    /\ nextId' = [nextId EXCEPT ![c] = next]
    /\ req' = [req EXCEPT ![p] = Request(op, c, id, body)]
    /\ resp' = [resp EXCEPT ![p] = r.res]
    /\ run' = [run EXCEPT ![c] =
                 IF op = "create"
                 THEN IF r.res.status = 201 /\ @ >= 0 THEN @ + 1 ELSE 0 - 1
                 ELSE IF r.rows = tables[c] THEN @
                 ELSE IF r.rows = {} THEN 0 ELSE 0 - 1]
    /\ issued' = [issued EXCEPT ![c] =
                    IF op = "create" /\ r.res.status = 201
                    THEN Append(@, [code |-> r.res.body.code, year |-> year,
                                    nth |-> run'[c], id |-> r.res.body.id])
                    ELSE @]

\* a handled request that touches the table of its class alone
Handled(p, op, c, id, body, r, next) ==
    /\ tables' = [tables EXCEPT ![c] = r.rows]
    /\ Recorded(p, op, c, id, body, r, next)

----------------------------------------------------------------------------
(* Requests handled one after the other. *)

PostReq(p, c, body) ==
    /\ c \in focus
    /\ LET r == RoutePost(impl, c, tables[c], nextId[c], year, body, down)
       IN  Handled(p, "create", c, 0, body, r, r.next)
    /\ UNCHANGED <<client, twin, impl, focus, year, down, pending>>

PutReq(p, c, id, body) ==
    /\ c \in focus
    /\ LET r == RoutePut(impl, c, tables[c], id, body, down)
       IN  Handled(p, "update", c, id, body, r, nextId[c])
    /\ UNCHANGED <<client, twin, impl, focus, year, down, pending>>

DeleteReq(p, c, id) ==
    /\ c \in focus
    /\ LET r == RouteDelete(impl, tables[c], id, down)
           own == [tables EXCEPT ![c] = r.rows]
       IN  /\ tables' = IF r.res.status = 204 THEN OnDelete(c, id, own) ELSE own
           /\ Recorded(p, "delete", c, id, NoBody, r, nextId[c])
    /\ UNCHANGED <<client, twin, impl, focus, year, down, pending>>

\* the calendar year changes
NewYear ==
    /\ year < LastYear
    /\ year' = year + 1
    /\ run' = [c \in Classes |->
                 IF c \in YearScoped /\ tables[c] # {} THEN 0 - 1 ELSE run[c]]
    /\ UNCHANGED <<client, twin, impl, focus, down, tables, nextId, pending, req, resp, issued>>

\* the code values a client puts into the code field of an update
PayloadCodes(c) ==
    { FirstCode(c, FirstYear), <<"Z">> }

CodeBodies(c) == {[NoBody EXCEPT !.code = Text(k)] : k \in PayloadCodes(c)}

\* the bodies of the update requests: a code value for a table whose update
\* writes it, lifecycle fields for a work order
WorkOrderBodies ==
    { [NoBody EXCEPT !.status = Str("Ingepland")],
      [NoBody EXCEPT !.code = Text(<<"Z">>)] }

StatusBodies ==
    { NoBody,
      [NoBody EXCEPT !.status = Str("In uitvoering")],
      [NoBody EXCEPT !.status = Str("Geannuleerd")] }

CompleteBodies ==
    { [NoBody EXCEPT !.notes = Str("done"), !.laborHours = h, !.photos = ph] :
        h \in {Undefined, Num(0), Num(35)},
        ph \in {List(<<>>), List(<<"p1">>)} }

PatchStatusReq(p, id, body) ==
    /\ "WorkOrder" \in focus
    /\ LET r == RoutePatchStatus(impl, tables["WorkOrder"], id, body, down)
       IN  Handled(p, "status", "WorkOrder", id, body, r, nextId["WorkOrder"])
    /\ UNCHANGED <<client, twin, impl, focus, year, down, pending>>

CompleteReq(p, id, body) ==
    /\ "WorkOrder" \in focus
    /\ LET r == RouteComplete(impl, tables["WorkOrder"], id, body, down)
       IN  Handled(p, "complete", "WorkOrder", id, body, r, nextId["WorkOrder"])
    /\ UNCHANGED <<client, twin, impl, focus, year, down, pending>>

Init ==
    /\ InitStore
    /\ impl \in {"db", "mem"}
    /\ focus \in {{c} : c \in Classes}

\* code allocation: creates, updates that carry a code, deletes, new years
Next ==
    \/ \E c \in Classes : nextId[c] <= MaxId /\ PostReq(1, c, Draft(c))
    \/ \E c \in Classes, id \in Ids : \E b \in CodeBodies(c) : PutReq(1, c, id, b)
    \/ \E c \in Classes, id \in Ids : DeleteReq(1, c, id)
    \/ NewYear

Spec == Init /\ [][Next]_vars

\* creates and deletes alone
NextCreateDelete ==
    \/ \E c \in Classes : nextId[c] <= MaxId /\ PostReq(1, c, Draft(c))
    \/ \E c \in Classes, id \in Ids : DeleteReq(1, c, id)
    \/ NewYear

SpecCreateDelete == Init /\ [][NextCreateDelete]_vars

\* the work-order lifecycle beside the plain updates of the other classes
NextLifecycle ==
    \/ \E c \in Classes : nextId[c] <= MaxRecords /\ PostReq(1, c, Draft(c))
    \/ \E c \in Classes \ {"WorkOrder"}, id \in Ids :
         \E b \in CodeBodies(c) : PutReq(1, c, id, b)
    \/ \E id \in Ids, b \in WorkOrderBodies : PutReq(1, "WorkOrder", id, b)
    \/ \E id \in Ids, b \in StatusBodies : PatchStatusReq(1, id, b)
    \/ \E id \in Ids, b \in CompleteBodies : CompleteReq(1, id, b)
    \/ \E c \in Classes, id \in Ids : DeleteReq(1, c, id)

SpecLifecycle == Init /\ [][NextLifecycle]_vars

----------------------------------------------------------------------------
(* Concurrent creates of DatabaseStorage: createX awaits the generator's   *)
(* select, then awaits the insert; other handlers run in between.          *)

\* the code of the latest row, as the generator's select returns it
LatestRead(rows) ==
    IF SelectLatest(rows) = {} THEN Undefined
    ELSE Text((CHOOSE r \in SelectLatest(rows) : TRUE).code)

\* the handlers in flight that read the same latest code for the same class
\* and computed the same new code
Rivals(p, c, seen, code) ==
    {q \in Procs \ {p} : /\ pending[q] # Idle
                         /\ pending[q].c = c
                         /\ pending[q].seen = seen
                         /\ pending[q].code = code}

\* await this.generateXNumber(): the read-latest step of a create
CreateRead(p, c, body) ==
    /\ c \in focus
    /\ impl = "db"
    /\ pending[p] = Idle
    /\ LET code == generate(c, tables[c], year, down)
           seen == LatestRead(tables[c])
           rivals == Rivals(p, c, seen, code)
       IN  pending' = [q \in Procs |->
                         IF q = p
                         THEN [phase |-> "insert", c |-> c, body |-> body,
                               code |-> code, seen |-> seen, rivals |-> rivals,
                               failed |-> down]
                         ELSE IF q \in rivals
                         THEN [pending[q] EXCEPT !.rivals = @ \cup {p}]
                         ELSE pending[q]]
    /\ req' = [req EXCEPT ![p] = Request("create", c, 0, body)]
    /\ resp' = [resp EXCEPT ![p] = NoRes]
    /\ UNCHANGED <<client, twin, impl, focus, year, down, tables, nextId, issued, run>>

\* await db.insert(...).values({ ...insert, code }).returning(), and the
\* route's answer: 201 with the row, or 500 when the insert threw
CreateInsert(p) ==
    /\ pending[p] # Idle
    /\ LET c == pending[p].c
           e == DbInsert(c, tables[c], nextId[c], pending[p].code, pending[p].body, down)
           r == [rows |-> e.rows,
                 res |-> IF e.out = Thrown THEN Res(500, Str("Error creating"))
                         ELSE Res(201, e.out)]
       IN  Handled(p, "create", c, 0, pending[p].body, r, e.next)
    /\ pending' = [pending EXCEPT ![p] = Idle]
    /\ UNCHANGED <<client, twin, impl, focus, year, down>>

InitRace ==
    /\ InitStore
    /\ impl = "db"
    /\ focus \in {{c} : c \in Classes}

NextRace ==
    \/ \E p \in Procs, c \in Classes :
         nextId[c] + Cardinality({q \in Procs : pending[q] # Idle}) <= MaxId
         /\ CreateRead(p, c, Draft(c))
    \/ \E p \in Procs : CreateInsert(p)
    \/ \E p \in Procs, c \in Classes, id \in Ids :
         pending[p] = Idle /\ DeleteReq(p, c, id)
    \/ NewYear

SpecRace == InitRace /\ [][NextRace]_vars

----------------------------------------------------------------------------
(* Storage failures: a query of DatabaseStorage fails while down holds.    *)
(* The requests come one after the other; the storage may fail and recover *)
(* between any two queries, also between the two queries of a create.      *)

GetReq(p, c, id) ==
    /\ c \in focus
    /\ LET r == [rows |-> tables[c], res |-> RouteGet(impl, tables[c], id, down)]
       IN  Handled(p, "get", c, id, NoBody, r, nextId[c])
    /\ UNCHANGED <<client, twin, impl, focus, year, down, pending>>

StorageFails ==
    /\ ~down
    /\ down' = TRUE
    /\ UNCHANGED <<client, twin, impl, focus, year, tables, nextId, pending, req, resp, issued, run>>

StorageRecovers ==
    /\ down
    /\ down' = FALSE
    /\ UNCHANGED <<client, twin, impl, focus, year, tables, nextId, pending, req, resp, issued, run>>

\* an update body that leaves the code alone
FieldBody(c) ==
    CASE c = "WorkOrder" -> [NoBody EXCEPT !.status = Str("In uitvoering")]
      [] c = "Material" -> [NoBody EXCEPT !.stock = Num(7)]
      [] c = "Invoice" -> [NoBody EXCEPT !.status = Str("Betaald")]
      [] OTHER -> NoBody

DoneBody == [NoBody EXCEPT !.notes = Str("done"), !.laborHours = Num(35),
                           !.photos = List(<<>>)]

NextFault ==
    \/ \E c \in Classes : nextId[c] <= MaxId /\ CreateRead(1, c, Draft(c))
    \/ CreateInsert(1)
    \/ \E c \in Classes, id \in Ids : pending[1] = Idle /\ GetReq(1, c, id)
    \/ \E c \in Classes, id \in Ids :
         pending[1] = Idle /\ PutReq(1, c, id, FieldBody(c))
    \/ \E id \in Ids : pending[1] = Idle /\ CompleteReq(1, id, DoneBody)
    \/ \E c \in Classes, id \in Ids : pending[1] = Idle /\ DeleteReq(1, c, id)
    \/ StorageFails
    \/ StorageRecovers

SpecFault == InitRace /\ [][NextFault]_vars

\* C11: a get, update, delete or complete whose query fails is answered 500,
\* and 404 is the answer only when no record has the requested id.
C11_FailureIs500 ==
    [][( /\ down' = down
         /\ req'[1].op \in {"get", "update", "delete", "complete"} )
       => ( /\ down => resp'[1].status = 500
            /\ resp'[1].status = 404 =>
                 RowOf(tables[req'[1].c], req'[1].id) = {} )]_vars

\* the lookup of the create in flight fell back to the scope's first code:
\* the select failed, or the latest code has the prefix and no number after it
FellBack(p) ==
    /\ pending[p] # Idle
    /\ \/ pending[p].failed
       \/ /\ pending[p].seen # Undefined
          /\ StartsWith(pending[p].seen.v, Prefix(pending[p].c, year))
          /\ ParseInt(Substring(pending[p].seen.v,
                                Len(Prefix(pending[p].c, year)))).nan

\* C20: when the generator's lookup fails or the latest code's suffix is no
\* number, the generator returns the scope's first code and the create that
\* called it does not fail (its insert query running, it is answered 201).
C20_FallbackCreateSucceeds ==
    [][\A p \in Procs :
         (FellBack(p) /\ pending'[p] = Idle /\ ~down)
           => ( /\ pending[p].code = FirstCode(pending[p].c, year)
                /\ resp'[p].status = 201 )]_vars

\* C2: no two records of a table carry the same code, in any state, the
\* states reached by interleaved creates included.
C2_NoDuplicateCode ==
    \A c \in Classes : \A r \in tables[c], q \in tables[c] :
      r.code = q.code => r.id = q.id

\* C3: when two concurrent creates read the same latest code and compute the
\* same new code, and the first has stored its record and got 201, the
\* second is answered 500 and stores nothing.
C3_LoserGets500 ==
    [][\A p \in Procs : \A q \in Procs \ {p} :
         ( /\ pending[p] # Idle
           /\ pending'[p] = Idle
           /\ q \in pending[p].rivals
           /\ pending[q] = Idle
           /\ resp[q].status = 201
           /\ resp[q].body \in tables[pending[p].c]
           /\ resp[q].body.code = pending[p].code )
         => ( resp'[p].status = 500 /\ tables' = tables )]_vars

----------------------------------------------------------------------------
(* Code allocation, requests handled one after the other. *)

\* the number a code carries after the prefix of its class and year
SuffixOf(c, e) == ParseInt(Substring(e.code, Len(Prefix(c, e.year))))

\* two creates fall into one scope: one calendar year, or any two materials
SameScope(c, e1, e2) == c = "Material" \/ e1.year = e2.year

\* C1: in DatabaseStorage, with requests handled one after the other, every
\* code create assigns differs from every code create assigned earlier in
\* the same scope and carries a strictly greater number, the codes of
\* records deleted in the meantime included.
C1_CodesStrictlyIncreasing ==
    impl = "db" =>
      \A c \in Classes : \A i \in 1..Len(issued[c]), j \in 1..Len(issued[c]) :
        (i < j /\ SameScope(c, issued[c][i], issued[c][j])) =>
          /\ issued[c][j].code # issued[c][i].code
          /\ SuffixOf(c, issued[c][j]).v > SuffixOf(c, issued[c][i]).v

\* C4: an update leaves the code of every record as it was, also when its
\* body carries another code.
C4_UpdateKeepsCode ==
    [][req'[1].op = "update" =>
         \A c \in Classes : \A r \in tables[c] : \A q \in tables'[c] :
           q.id = r.id => q.code = r.code]_vars

\* C9: in DatabaseStorage, N creates in a row within one calendar year on a
\* table that was empty assign prefix + 0001, 0002, ..., in this order.
C9_SequentialSuffixes ==
    impl = "db" =>
      \A c \in YearScoped : \A i \in 1..Len(issued[c]) :
        issued[c][i].nth > 0 =>
          issued[c][i].code =
            Prefix(c, issued[c][i].year) \o PadStart(ToString(issued[c][i].nth), 4, "0")

\* two creates in a row on an empty table of a year-scoped class, the second
\* of them in the run's second place
C9_Witness ==
    /\ impl = "db"
    /\ \E c \in YearScoped :
         /\ Len(issued[c]) >= 2
         /\ issued[c][Len(issued[c])].nth = 2
         /\ issued[c][Len(issued[c])].code # issued[c][Len(issued[c]) - 1].code

AllDigits(s) == \A i \in 1..Len(s) : IsDigit(s[i])

\* KL-YYYY-dddd, ART-dddddd, WB-YYYY-dddd, F-YYYY-dddd
MatchesPattern(c, code) ==
    LET l == Len(Letters(c))
    IN  /\ StartsWith(code, Letters(c))
        /\ IF c = "Material"
           THEN Len(code) = l + 6 /\ AllDigits(Substring(code, l))
           ELSE /\ Len(code) = l + 9
                /\ AllDigits(SubSeq(code, l + 1, l + 4))
                /\ code[l + 5] = "-"
                /\ AllDigits(Substring(code, l + 5))

\* C10: every code create assigns, in either storage implementation, has the
\* fixed pattern of its class.
C10_CodesMatchPattern ==
    \A c \in Classes : \A i \in 1..Len(issued[c]) :
      MatchesPattern(c, issued[c][i].code)

----------------------------------------------------------------------------
(* Deletion. *)

\* the step handles a request of kind op (the calendar and the storage's
\* condition change in steps of their own)
Handles(op) == req'[1].op = op /\ year' = year /\ down' = down

\* C12: a delete of an existing record removes it and is answered 204, a
\* delete of a missing id is answered 404; afterwards a get of the id is
\* answered 404 and every other record is as it was.
C12_DeleteRemovesRecord ==
    [][Handles("delete") =>
         LET c == req'[1].c
             id == req'[1].id
         IN  /\ resp'[1].status = IF RowOf(tables[c], id) # {} THEN 204 ELSE 404
             /\ RouteGet(impl, tables'[c], id, down').status = 404
             /\ tables'[c] = tables[c] \ RowOf(tables[c], id)
             /\ \A k \in Classes \ {c} : tables'[k] = tables[k]]_vars

\* a delete removed one of two records
C12_Witness ==
    /\ req[1].op = "delete"
    /\ resp[1].status = 204
    /\ RowOf(tables[req[1].c], req[1].id) = {}
    /\ tables[req[1].c] # {}

\* customers together with the work orders and invoices that name them
InitReferences ==
    /\ InitStore
    /\ impl \in {"db", "mem"}
    /\ focus = {"Customer"} \cup Referrers

NextReferences ==
    \/ nextId["Customer"] <= MaxId /\ PostReq(1, "Customer", Draft("Customer"))
    \/ \E c \in Referrers, k \in Ids :
         /\ nextId[c] <= MaxRecords
         /\ PostReq(1, c, [Draft(c) EXCEPT !.customerId = Num(k)])
    \/ \E id \in Ids : DeleteReq(1, "Customer", id)

SpecReferences == InitReferences /\ [][NextReferences]_vars

\* the records of the classes that name customer id
ReferringTo(id) ==
    {r \in UNION {tables[k] : k \in Referrers} : r.customerId = Num(id)}

\* C13: the delete of a customer that work orders or invoices name is
\* answered 204 and leaves every work order and invoice as it was, the
\* customerId included.
C13_NoCascade ==
    [][( /\ Handles("delete")
         /\ req'[1].c = "Customer"
         /\ RowOf(tables["Customer"], req'[1].id) # {}
         /\ ReferringTo(req'[1].id) # {} )
       => ( /\ resp'[1].status = 204
            /\ \A k \in Referrers : tables'[k] = tables[k] )]_vars

\* a customer was deleted and a work order or invoice still names it
C13_Witness ==
    /\ req[1].op = "delete"
    /\ req[1].c = "Customer"
    /\ resp[1].status = 204
    /\ RowOf(tables["Customer"], req[1].id) = {}
    /\ ReferringTo(req[1].id) # {}

----------------------------------------------------------------------------
(* The work-order lifecycle. *)

Orders == tables["WorkOrder"]

\* the request handled last is a complete with labor hours, for a work order
\* that exists (complete removes no row: it exists now iff it existed before)
CompletedExisting ==
    /\ req[1].op = "complete"
    /\ req[1].body.laborHours # Undefined
    /\ RowOf(Orders, req[1].id) # {}

PhotoList(x) == IF x.t = "list" THEN x.v ELSE <<>>

\* C6: after a successful complete with photos P the stored work order's
\* photos are P (a getById of it returns P).
C6_CompleteStoresPhotos ==
    (CompletedExisting /\ resp[1].status = 200) =>
      \A r \in RowOf(Orders, req[1].id) :
        PhotoList(r.photos) = PhotoList(req[1].body.photos)

\* C7 as stated: every update and every complete for an id that does not
\* exist is answered 404, creates no record and changes none.
C7_AnyMissingIdIs404 ==
    [][( /\ req'[1].op \in {"update", "complete"}
         /\ RowOf(tables[req'[1].c], req'[1].id) = {} )
       => ( resp'[1].status = 404 /\ tables' = tables )]_vars

\* C7, amended: an update, or a complete that carries labor hours, for an id
\* that does not exist is answered 404, creates no record and changes none;
\* a complete without labor hours is answered 400 and changes nothing either.
C7_MissingIdIs404 ==
    [][( /\ req'[1].op \in {"update", "complete"}
         /\ RowOf(tables[req'[1].c], req'[1].id) = {} )
       => ( /\ tables' = tables
            /\ resp'[1].status =
                 IF req'[1].op = "complete" /\ req'[1].body.laborHours = Undefined
                 THEN 400 ELSE 404 )]_vars

\* an update or complete for a missing id was answered 404 while the table
\* holds another record
C7_Witness ==
    /\ req[1].op \in {"update", "complete"}
    /\ RowOf(tables[req[1].c], req[1].id) = {}
    /\ tables[req[1].c] # {}
    /\ resp[1].status = 404

\* C8: a complete on an existing work order goes through with no photos and
\* with zero labor hours; without labor hours it is answered 400 and the
\* work orders stay as they were.
C8_CompleteInputs ==
    [][req'[1].op = "complete" =>
         /\ ( /\ RowOf(Orders, req'[1].id) # {}
              /\ req'[1].body.laborHours # Undefined
              /\ (req'[1].body.laborHours = Num(0) \/ req'[1].body.photos = List(<<>>)) )
            => ( /\ resp'[1].status = 200
                 /\ resp'[1].body.status = Str("Voltooid")
                 /\ resp'[1].body \in tables'["WorkOrder"] )
         /\ req'[1].body.laborHours = Undefined
            => ( resp'[1].status = 400 /\ tables' = tables )]_vars

\* a complete with zero hours and no photos went through
C8_Witness ==
    /\ CompletedExisting
    /\ req[1].body.laborHours = Num(0)
    /\ req[1].body.photos = List(<<>>)
    /\ resp[1].status = 200
    /\ resp[1].body.laborHours = Num(0)

----------------------------------------------------------------------------
(* The statuses of a work order. *)

\* the statuses of the work-order lifecycle
Statuses == {"Ingepland", "In uitvoering", "Voltooid", "Geannuleerd"}

\* the status values requests carry: the lifecycle's, and 'Nieuw', which the
\* dashboard counts work orders by
SentStatuses == Statuses \cup {"Nieuw"}

NextStatus ==
    \/ nextId["WorkOrder"] <= MaxRecords
         /\ PostReq(1, "WorkOrder", Draft("WorkOrder"))
    \/ \E id \in Ids, t \in SentStatuses :
         PatchStatusReq(1, id, [NoBody EXCEPT !.status = Str(t)])
    \/ \E id \in Ids, t \in SentStatuses :
         PutReq(1, "WorkOrder", id, [NoBody EXCEPT !.status = Str(t)])
    \/ \E id \in Ids : CompleteReq(1, id, DoneBody)
    \/ \E id \in Ids : DeleteReq(1, "WorkOrder", id)

InitStatus ==
    /\ InitStore
    /\ impl \in {"db", "mem"}
    /\ focus = {"WorkOrder"}

SpecStatus == InitStatus /\ [][NextStatus]_vars

\* C14: the status of every stored work order is one of the four statuses of
\* the lifecycle.
C14_StatusInLifecycle ==
    \A r \in Orders : \E t \in Statuses : r.status = Str(t)

\* C15: a status update (PATCH .../status or PUT with {status: t}) of an
\* existing work order to any of the four statuses is answered 200 and the
\* stored status is t, whatever the status was.
C15_AnyTransition ==
    [][( /\ req'[1].op \in {"status", "update"}
         /\ RowOf(Orders, req'[1].id) # {}
         /\ \E t \in Statuses : req'[1].body.status = Str(t) )
       => ( /\ resp'[1].status = 200
            /\ resp'[1].body.status = req'[1].body.status
            /\ RowOf(tables'["WorkOrder"], req'[1].id) = {resp'[1].body} )]_vars

\* a work order that was completed (it carries the notes of the complete)
\* was set back to Ingepland
C15_Witness ==
    /\ req[1].op = "status"
    /\ req[1].body.status = Str("Ingepland")
    /\ resp[1].status = 200
    /\ \E r \in RowOf(Orders, req[1].id) :
         r.status = Str("Ingepland") /\ r.notes = Str("done")

----------------------------------------------------------------------------
(* The dashboard over the invoices and the materials. *)

\* a dashboard request; the request keeps the year it was answered in
DashboardReq(p) ==
    /\ req' = [req EXCEPT ![p] = [op |-> "dashboard", year |-> year]]
    /\ resp' = [resp EXCEPT ![p] = RouteDashboard(impl, tables, year, down)]
    /\ UNCHANGED <<client, twin, impl, focus, year, down, tables, nextId, pending, issued, run>>

InvoiceDrafts ==
    { [Draft("Invoice") EXCEPT !.date = DateOf(FirstYear, 0), !.amount = Num(100)],
      [Draft("Invoice") EXCEPT !.date = DateOf(FirstYear, 0), !.amount = Num(250),
                               !.status = Str("Betaald")],
      [Draft("Invoice") EXCEPT !.date = DateOf(FirstYear, 1), !.amount = Num(100),
                               !.status = Str("Verzonden")],
      [Draft("Invoice") EXCEPT !.date = DateOf(LastYear, 0), !.amount = Num(250),
                               !.status = Str("Betaald")] }

MaterialDrafts ==
    { [NoBody EXCEPT !.stock = Num(5), !.minStock = Num(5)],
      [NoBody EXCEPT !.stock = Num(9), !.minStock = Num(5)],
      [NoBody EXCEPT !.stock = Num(3), !.minStock = Null] }

InitDashboard ==
    /\ InitStore
    /\ impl \in {"db", "mem"}
    /\ focus \in {{"Invoice"}, {"Material"}}

NextDashboard ==
    \/ \E d \in InvoiceDrafts :
         nextId["Invoice"] <= MaxId /\ PostReq(1, "Invoice", d)
    \/ \E id \in Ids : PutReq(1, "Invoice", id, FieldBody("Invoice"))
    \/ \E d \in MaterialDrafts :
         nextId["Material"] <= MaxMaterials /\ PostReq(1, "Material", d)
    \/ DashboardReq(1)
    \/ NewYear

SpecDashboard == InitDashboard /\ [][NextDashboard]_vars

\* the sum of the amounts of a set of invoices
RECURSIVE SumAmounts(_)
SumAmounts(invs) ==
    IF invs = {} THEN 0
    ELSE LET inv == CHOOSE x \in invs : TRUE
         IN  inv.amount.v + SumAmounts(invs \ {inv})

\* C16: for every month the dashboard's monthly revenue is the sum of the
\* amounts of the invoices dated in that month of the current year whose
\* status is not Concept.
C16_MonthlyRevenue ==
    req[1].op = "dashboard" =>
      \A month \in Months :
        resp[1].body.monthlyRevenue[month] =
          SumAmounts({inv \in tables["Invoice"] :
                        /\ inv.date.y = req[1].year
                        /\ inv.date.m = month
                        /\ inv.status # Str("Concept")})

\* the dashboard was answered while a month of the current year holds a
\* Concept invoice beside an invoice that counts
C16_Witness ==
    /\ req[1].op = "dashboard"
    /\ \E month \in Months :
         /\ \E inv \in tables["Invoice"] :
              /\ inv.date = DateOf(req[1].year, month)
              /\ inv.status = Str("Concept")
         /\ resp[1].body.monthlyRevenue[month] = 250

\* the ids of the materials the dashboard lists
ListedIds == {resp[1].body.lowStockMaterials[i].id :
                i \in 1..Len(resp[1].body.lowStockMaterials)}

\* the stored materials with stock <= minStock
LowIds ==
    {m.id : m \in {x \in tables["Material"] :
                     /\ x.stock.t = "number" /\ x.minStock.t = "number"
                     /\ x.stock.v <= x.minStock.v}}

\* C17 as stated: the dashboard lists exactly the materials with
\* stock <= minStock, however many there are, and none whose minStock is
\* null or undefined.
C17_ListsEveryLowStock ==
    req[1].op = "dashboard" =>
      /\ ListedIds = LowIds
      /\ \A i \in 1..Len(resp[1].body.lowStockMaterials) :
           resp[1].body.lowStockMaterials[i].minStock \notin {Null, Undefined}

\* C17, amended: the dashboard lists materials with stock <= minStock only,
\* each once and none with a null minStock: all of them when there are at
\* most five, and otherwise the first five in the order the storage lists
\* them (DatabaseStorage the highest ids, MemStorage the lowest).
C17_ListsFirstFiveLowStock ==
    req[1].op = "dashboard" =>
      /\ ListedIds \subseteq LowIds
      /\ Len(resp[1].body.lowStockMaterials) = Cardinality(ListedIds)
      /\ Cardinality(ListedIds) =
           IF Cardinality(LowIds) < 5 THEN Cardinality(LowIds) ELSE 5
      /\ \A i \in ListedIds, j \in LowIds \ ListedIds :
           IF impl = "db" THEN i > j ELSE i < j
      /\ \A i \in 1..Len(resp[1].body.lowStockMaterials) :
           /\ resp[1].body.lowStockMaterials[i] \in tables["Material"]
           /\ resp[1].body.lowStockMaterials[i].minStock \notin {Null, Undefined}

\* the dashboard listed five of six materials that are low on stock
C17_Witness ==
    /\ req[1].op = "dashboard"
    /\ Cardinality(LowIds) = 6
    /\ Cardinality(ListedIds) = 5

----------------------------------------------------------------------------
(* Materials: create, then read back. *)

InitRoundTrip ==
    /\ InitStore
    /\ impl \in {"db", "mem"}
    /\ focus = {"Material"}

NextRoundTrip ==
    \/ \E d \in MaterialDrafts \cup {NoBody} :
         nextId["Material"] <= MaxId /\ PostReq(1, "Material", d)
    \/ \E id \in Ids : GetReq(1, "Material", id)
    \/ \E id \in Ids : PutReq(1, "Material", id, FieldBody("Material"))
    \/ \E id \in Ids : DeleteReq(1, "Material", id)

SpecRoundTrip == InitRoundTrip /\ [][NextRoundTrip]_vars

\* C18: a get of the id a create of a material just returned is answered
\* with the record the create returned, field by field, the article number
\* included.
C18_MaterialRoundTrip ==
    [][( /\ req[1].op = "create"
         /\ resp[1].status = 201
         /\ req'[1].op = "get"
         /\ req'[1].id = resp[1].body.id )
       => ( /\ resp'[1].status = 200
            /\ resp'[1].body = resp[1].body
            /\ resp'[1].body.code = issued["Material"][Len(issued["Material"])].code )]_vars

\* DatabaseStorage read back a material created without stock values: the
\* record carries the generated number and the defaults
C18_Witness ==
    /\ impl = "db"
    /\ req[1].op = "get"
    /\ resp[1].status = 200
    /\ Len(issued["Material"]) = 1
    /\ resp[1].body.code = FirstCode("Material", year)
    /\ resp[1].body.stock = Num(0)
    /\ resp[1].body.minStock = Num(0)

----------------------------------------------------------------------------
(* The generator and the scope's records. *)

\* the code the claim names: prefix + padded (s + 1) for the suffix s of the
\* record with the highest id among those whose code starts with the prefix,
\* the scope's first code when there is none
ContinuedCode(c, rows, y) ==
    LET inScope == {r \in rows : StartsWith(r.code, Prefix(c, y))}
    IN  IF inScope = {} THEN FirstCode(c, y)
        ELSE LET last == CHOOSE r \in inScope : \A q \in inScope : q.id <= r.id
                 s == ParseInt(Substring(last.code, Len(Prefix(c, y))))
             IN  Prefix(c, y) \o PadStart(ToString(s.v + 1), PadWidth(c), "0")

\* C19: the code the generator of DatabaseStorage returns continues the
\* numbers of the scope: it follows the suffix of the scope's record with the
\* highest id, and is the scope's first code when the scope has no record.
C19_GeneratorContinuesScope ==
    impl = "db" =>
      \A c \in focus :
        generate(c, tables[c], year, down) = ContinuedCode(c, tables[c], year)


----------------------------------------------------------------------------
(* The dashboard and the materials page over the stored records. *)

\* DashboardPage, the stats queryFn when GET /api/dashboard/stats failed:
\* the four lists are fetched and folded in the browser
FallbackReq(p) ==
    /\ req' = [req EXCEPT ![p] = [op |-> "fallback", year |-> year]]
    /\ resp' = [resp EXCEPT ![p] =
                  Res(200, FallbackStats(
                             RouteGetAll(impl, tables["WorkOrder"], down).body,
                             RouteGetAll(impl, tables["Customer"], down).body,
                             RouteGetAll(impl, tables["Material"], down).body,
                             RouteGetAll(impl, tables["Invoice"], down).body,
                             year))]
    /\ UNCHANGED <<client, twin, impl, focus, year, down, tables, nextId, pending, issued, run>>

\* MaterialsPage: the list of GET /api/materials, each row with its badge
MaterialsPageReq(p) ==
    /\ req' = [req EXCEPT ![p] = [op |-> "materials-page"]]
    /\ resp' = [resp EXCEPT ![p] =
                  LET list == RouteGetAll(impl, tables["Material"], down).body
                  IN  Res(200, [i \in 1..Len(list) |->
                                  [material |-> list[i],
                                   badge |-> getStockStatus(list[i])]])]
    /\ UNCHANGED <<client, twin, impl, focus, year, down, tables, nextId, pending, issued, run>>

StockDrafts ==
    MaterialDrafts \cup { [NoBody EXCEPT !.stock = Num(0), !.minStock = Num(5)],
                          [NoBody EXCEPT !.stock = Num(2), !.minStock = Num(5)] }

OrderDrafts ==
    { [Draft("WorkOrder") EXCEPT !.status = s] :
        s \in {Undefined, Str("In uitvoering"), Str("Voltooid"), Str("Geannuleerd")} }

InitViews ==
    /\ InitStore
    /\ impl \in {"db", "mem"}
    /\ focus \in {{"Invoice"}, {"Material"}, {"WorkOrder"}}

NextViews ==
    \/ \E d \in InvoiceDrafts :
         nextId["Invoice"] <= MaxId /\ PostReq(1, "Invoice", d)
    \/ \E d \in StockDrafts :
         nextId["Material"] <= MaxId /\ PostReq(1, "Material", d)
    \/ \E d \in OrderDrafts :
         nextId["WorkOrder"] <= MaxId /\ PostReq(1, "WorkOrder", d)
    \/ DashboardReq(1)
    \/ FallbackReq(1)
    \/ MaterialsPageReq(1)

SpecViews == InitViews /\ [][NextViews]_vars

\* the stored work orders whose status is s
InStatus(s) == {w \in tables["WorkOrder"] : w.status = Str(s)}

\* C21: the dashboard's work-order counts report, for the lifecycle statuses,
\* the number of work orders in each: the statistics answered for a store
\* whose work orders are all in lifecycle statuses count every work order in
\* exactly one bucket, and the bucket of Voltooid holds the completed ones.
C21_LifecycleCounts ==
    (/\ req[1].op = "dashboard"
     /\ \A w \in tables["WorkOrder"] : w.status \in {Str(s) : s \in Statuses})
    => LET by == resp[1].body.workOrdersByStatus
       IN  /\ by.nieuw + by.inBehandeling + by.voltooid
                = Cardinality(tables["WorkOrder"])
           /\ by.voltooid = Cardinality(InStatus("Voltooid"))

\* C23: the materials page shows "Op voorraad" for a material with numeric
\* stock and minimum exactly when its stock is above the minimum, which is
\* exactly when the dashboard does not class it as low on stock.
C23_StockClassesAgree ==
    req[1].op = "materials-page"
    => \A i \in DOMAIN resp[1].body :
         LET row == resp[1].body[i]
             m == row.material
         IN  (m.stock.t = "number" /\ m.minStock.t = "number")
             => /\ (row.badge = "Op voorraad") <=> (m.stock.v > m.minStock.v)
                /\ (row.badge = "Op voorraad") <=> ~IsLowStock(m)

\* C29: the statistics the dashboard page computes when the stats endpoint
\* failed are the statistics the server computes from the same store.
C29_FallbackMatchesServer ==
    req[1].op = "fallback"
    => resp[1].body = RouteDashboard(impl, tables, req[1].year, down).body



----------------------------------------------------------------------------
(* The id counters of MemStorage. *)

\* C30: in MemStorage, over creates and deletes, the id a create assigns is
\* greater than every id assigned to the class before, deleted records
\* included, and the code derived from it differs from every earlier code.
C30_MemIdsNeverReused ==
    impl = "mem" =>
      \A c \in Classes : \A i \in 1..Len(issued[c]), j \in 1..Len(issued[c]) :
        i < j => /\ issued[c][j].id > issued[c][i].id
                 /\ issued[c][j].code # issued[c][i].code

\* a create that followed a create and a delete
C30_Witness ==
    /\ impl = "mem"
    /\ req[1].op = "create"
    /\ \E c \in Classes : Len(issued[c]) = 2 /\ Cardinality(tables[c]) = 1

----------------------------------------------------------------------------
(* The two storages side by side: every request goes to the DatabaseStorage
   of the state and to the MemStorage twin, handler 1 keeps the answer of
   the first and handler 2 the answer of the second. *)

\* both answers of one request
Both(op, c, id, body, a, b) ==
    /\ tables' = [tables EXCEPT ![c] = a.rows]
    /\ nextId' = [nextId EXCEPT ![c] = a.next]
    /\ twin' = [tables |-> [twin.tables EXCEPT ![c] = b.rows],
                nextId |-> [twin.nextId EXCEPT ![c] = b.next]]
    /\ req' = [p \in Procs |-> Request(op, c, id, body)]
    /\ resp' = [p \in Procs |-> IF p = 1 THEN a.res ELSE b.res]
    /\ UNCHANGED <<client, impl, focus, year, down, pending, issued, run>>

\* a route's result with the id counter it leaves
Keeping(next, r) == [rows |-> r.rows, next |-> next, res |-> r.res]

BothPost(c, body) ==
    Both("create", c, 0, body,
         RoutePost("db", c, tables[c], nextId[c], year, body, down),
         RoutePost("mem", c, twin.tables[c], twin.nextId[c], year, body, down))

BothGetAll(c) ==
    Both("getAll", c, 0, NoBody,
         [rows |-> tables[c], next |-> nextId[c],
          res |-> RouteGetAll("db", tables[c], down)],
         [rows |-> twin.tables[c], next |-> twin.nextId[c],
          res |-> RouteGetAll("mem", twin.tables[c], down)])

BothGet(c, id) ==
    Both("get", c, id, NoBody,
         [rows |-> tables[c], next |-> nextId[c],
          res |-> RouteGet("db", tables[c], id, down)],
         [rows |-> twin.tables[c], next |-> twin.nextId[c],
          res |-> RouteGet("mem", twin.tables[c], id, down)])

BothPut(c, id, body) ==
    Both("update", c, id, body,
         Keeping(nextId[c], RoutePut("db", c, tables[c], id, body, down)),
         Keeping(twin.nextId[c],
                 RoutePut("mem", c, twin.tables[c], id, body, down)))

BothDelete(c, id) ==
    Both("delete", c, id, NoBody,
         Keeping(nextId[c], RouteDelete("db", tables[c], id, down)),
         Keeping(twin.nextId[c], RouteDelete("mem", twin.tables[c], id, down)))

\* drafts that leave fields out or give them the value zero
TwinDrafts(c) ==
    CASE c = "Material" ->
           { NoBody, [NoBody EXCEPT !.stock = Num(0), !.minStock = Num(0)],
             [NoBody EXCEPT !.stock = Num(5), !.minStock = Num(5)] }
      [] c = "WorkOrder" ->
           { Draft(c), [Draft(c) EXCEPT !.laborHours = Num(0)],
             [Draft(c) EXCEPT !.laborHours = Num(15)] }
      [] OTHER -> {Draft(c)}

InitTwin ==
    /\ InitStore
    /\ impl = "db"
    /\ focus \in {{c} : c \in Classes}

NextTwin ==
    \/ \E c \in focus : \E d \in TwinDrafts(c) :
         nextId[c] <= MaxId /\ BothPost(c, d)
    \/ \E c \in focus : BothGetAll(c)
    \/ \E c \in focus, id \in Ids : BothGet(c, id)
    \/ \E c \in focus, id \in Ids : BothPut(c, id, FieldBody(c))
    \/ \E c \in focus, id \in Ids : BothDelete(c, id)

SpecTwin == InitTwin /\ [][NextTwin]_vars

\* C22: MemStorage and DatabaseStorage are interchangeable: handed the same
\* sequence of create, getAll, getById, update and delete calls from empty
\* stores within one year, they give the same answer to every call (the same
\* generated codes, the same stored values for fields left out or zero, the
\* same order of getAll).
C22_StoragesAgree ==
    (req[1] # NoReq /\ req[2] = req[1]) => resp[1] = resp[2]
----------------------------------------------------------------------------
(* The materials written on a work order. *)

\* a line of a work order's materials list: the material's id and the amount
\* used
LinesOf(k) == List(<<[materialId |-> k, quantity |-> 2]>>)

InitSnapshot ==
    /\ InitStore
    /\ impl \in {"db", "mem"}
    /\ focus = {"Material", "WorkOrder"}

NextSnapshot ==
    \/ \E d \in MaterialDrafts :
         nextId["Material"] <= MaxId /\ PostReq(1, "Material", d)
    \/ \E k \in Ids :
         /\ nextId["WorkOrder"] <= MaxRecords
         /\ PostReq(1, "WorkOrder", [Draft("WorkOrder") EXCEPT !.materials = LinesOf(k)])
    \/ \E id \in Ids : PutReq(1, "Material", id, FieldBody("Material"))
    \/ \E id \in Ids : DeleteReq(1, "Material", id)

SpecSnapshot == InitSnapshot /\ [][NextSnapshot]_vars

\* C24: an update or a delete of a material leaves the materials list of
\* every stored work order as it was (and removes or adds no work order).
C24_MaterialChangeKeepsLines ==
    [][ ((Handles("update") \/ Handles("delete")) /\ req'[1].c = "Material")
        => /\ \A w \in tables["WorkOrder"] :
                \E v \in tables'["WorkOrder"] :
                  v.id = w.id /\ v.materials = w.materials
           /\ \A v \in tables'["WorkOrder"] :
                \E w \in tables["WorkOrder"] : w.id = v.id ]_vars

\* a material named on a stored work order was deleted
C24_Witness ==
    /\ req[1].op = "delete" /\ req[1].c = "Material" /\ resp[1].status = 204
    /\ \E w \in tables["WorkOrder"] :
         w.materials = LinesOf(req[1].id)
----------------------------------------------------------------------------
(* Two updates of one work order in flight. *)

\* updateWorkOrder up to its first await. DatabaseStorage: the existing row
\* is read (await this.getWorkOrder(id)). MemStorage: the method has no
\* await, so the call reads, merges and stores, and the handler waits for
\* the settled promise.
UpdateRead(p, id, body) ==
    /\ pending[p] = Idle
    /\ LET e == IF impl = "db"
                THEN [rows |-> tables["WorkOrder"],
                      out |-> DbGet(tables["WorkOrder"], id, down)]
                ELSE MemUpdate("WorkOrder", tables["WorkOrder"], id, body,
                               JsonKeys(body))
       IN  /\ tables' = [tables EXCEPT !["WorkOrder"] = e.rows]
           /\ pending' = [pending EXCEPT ![p] =
                            [phase |-> "update", id |-> id, body |-> body,
                             held |-> e.out]]
    /\ req' = [req EXCEPT ![p] = Request("update", "WorkOrder", id, body)]
    /\ resp' = [resp EXCEPT ![p] = NoRes]
    /\ UNCHANGED <<client, twin, impl, focus, year, down, nextId, issued, run>>

\* the rest of the call and the route's answer. DatabaseStorage: the UPDATE
\* statement; MemStorage: nothing but the answer
UpdateWrite(p) ==
    /\ pending[p] # Idle
    /\ pending[p].phase = "update"
    /\ LET id == pending[p].id
           e == IF impl = "db"
                THEN DbWriteWorkOrder(tables["WorkOrder"], id, pending[p].held,
                                      pending[p].body, down)
                ELSE [rows |-> tables["WorkOrder"], out |-> pending[p].held]
       IN  /\ tables' = [tables EXCEPT !["WorkOrder"] = e.rows]
           /\ resp' = [resp EXCEPT ![p] =
                         IF e.out = Undefined THEN Res(404, Str("not found"))
                         ELSE Res(200, e.out)]
    /\ pending' = [pending EXCEPT ![p] = Idle]
    /\ UNCHANGED <<client, twin, impl, focus, year, down, nextId, req, issued, run>>

\* bodies that set one column each, and one that sets two
UpdateBodies ==
    { [NoBody EXCEPT !.status = Str("In uitvoering")],
      [NoBody EXCEPT !.notes = Str("n")],
      [NoBody EXCEPT !.laborHours = Num(15)],
      [NoBody EXCEPT !.status = Str("Geannuleerd"), !.notes = Str("m")] }

InitUpdateRace ==
    /\ InitStore
    /\ impl \in {"db", "mem"}
    /\ focus = {"WorkOrder"}

\* work orders are created, then every handler sends one update
NextUpdateRace ==
    \/ /\ nextId["WorkOrder"] <= MaxRecords
       /\ \A p \in Procs : req[p].op # "update"
       /\ PostReq(1, "WorkOrder", Draft("WorkOrder"))
    \/ \E p \in Procs, id \in Ids : \E b \in UpdateBodies :
         req[p].op # "update" /\ UpdateRead(p, id, b)
    \/ \E p \in Procs : UpdateWrite(p)

SpecUpdateRace == InitUpdateRace /\ [][NextUpdateRace]_vars

\* the columns a body sets
Sets(body) ==
    {k \in {"status", "notes", "laborHours", "materials", "customerId"} :
       body[k] # Undefined}

\* both updates of p and q are answered, for the same work order, and no
\* third handler updates it
BothAnswered(p, q) ==
    /\ p # q
    /\ pending[p] = Idle /\ pending[q] = Idle
    /\ req[p].op = "update" /\ req[q].op = "update"
    /\ req[p].id = req[q].id
    /\ resp[p].status = 200 /\ resp[q].status = 200
    /\ \A r \in Procs \ {p, q} : req[r].op = "update" => req[r].id # req[p].id

\* C25: two updateWorkOrder calls on one existing work order that set
\* disjoint columns both take effect, however their read and write steps
\* interleave: when both are answered (and they are the only updates of that
\* work order) the stored work order holds the values of both.
C25_DisjointUpdatesBothApply ==
    \A p \in Procs, q \in Procs :
      (BothAnswered(p, q) /\ Sets(req[p].body) \cap Sets(req[q].body) = {})
      => \A r \in RowOf(tables["WorkOrder"], req[p].id) :
           /\ \A k \in Sets(req[p].body) : r[k] = req[p].body[k]
           /\ \A k \in Sets(req[q].body) : r[k] = req[q].body[k]

\* a status update and a notes update of one work order, both answered
C25_Witness ==
    \E p \in Procs, q \in Procs :
      /\ BothAnswered(p, q)
      /\ Sets(req[p].body) = {"status"}
      /\ Sets(req[q].body) = {"notes"}
      /\ RowOf(tables["WorkOrder"], req[p].id) # {}
----------------------------------------------------------------------------
(* The client: the Pagination component under a page's DataTable. *)

\* the server as the client specifications leave it: constructed, untouched
ServerAside ==
    /\ InitServer
    /\ impl = "db"
    /\ focus = {}

ServerUnchanged ==
    UNCHANGED <<impl, focus, year, down, tables, nextId, pending, req, resp,
                issued, run, twin>>

ItemsPerPage == 10

MaxItems == 45

Min(a, b) == IF a < b THEN a ELSE b

Max(a, b) == IF a > b THEN a ELSE b

\* Math.ceil(totalItems / itemsPerPage)
TotalPages(totalItems) == (totalItems + ItemsPerPage - 1) \div ItemsPerPage

\* paginationItems, the numbers among them: page 1, the pages around the
\* current one, the last page when there is more than one
PageButtons(currentPage, totalPages) ==
    {1} \cup (Max(2, currentPage - 1)..Min(totalPages - 1, currentPage + 1))
        \cup (IF totalPages > 1 THEN {totalPages} ELSE {})

\* onPageChange(page): WorkOrdersPage.handlePageChange sets currentPage
OnPageChange(page) ==
    /\ client' = [client EXCEPT !.currentPage = page, !.called = TRUE,
                                !.page = page]
    /\ ServerUnchanged

\* the Vorige button: disabled on page 1
ClickPrevious ==
    /\ client.currentPage # 1
    /\ OnPageChange(Max(1, client.currentPage - 1))

\* the Volgende button: disabled on the last page
ClickNext ==
    /\ client.currentPage # TotalPages(client.totalItems)
    /\ OnPageChange(Min(TotalPages(client.totalItems), client.currentPage + 1))

\* a page-number button
ClickPage(item) ==
    /\ item \in PageButtons(client.currentPage, TotalPages(client.totalItems))
    /\ OnPageChange(item)

\* useState(1), and a list of any length
InitPagination ==
    /\ ServerAside
    /\ \E n \in 0..MaxItems :
         client = [view |-> "pagination", totalItems |-> n, currentPage |-> 1,
                   called |-> FALSE, page |-> 1]

NextPagination ==
    \/ ClickPrevious
    \/ ClickNext
    \/ \E item \in 1..(TotalPages(MaxItems) + 1) : ClickPage(item)

SpecPagination == InitPagination /\ [][NextPagination]_vars

\* C26: every page the Pagination component passes to onPageChange, after
\* any sequence of clicks from page 1 and for any number of items, lies in
\* 1..max(1, totalPages).
C26_PageInRange ==
    (client.view = "pagination" /\ client.called)
    => client.page \in 1..Max(1, TotalPages(client.totalItems))
----------------------------------------------------------------------------
(* The client: the complete dialog of WorkOrdersPage. *)

MaxPhotos == 2

\* the elements of a list
Range(list) == {list[i] : i \in DOMAIN list}

\* prev.filter((_, i) => i !== index), indices counted from 1
RemoveAt(list, index) ==
    [i \in 1..(Len(list) - 1) |-> IF i < index THEN list[i] ELSE list[i + 1]]

NotSent == [id |-> 0, photos |-> <<>>, expected |-> {}]

\* the row's complete button (the dialog is modal: the table is reached when
\* it is closed): handleCompleteWorkOrder
OpenComplete(w) ==
    /\ ~client.completeDialogOpen
    /\ client' = [client EXCEPT !.workOrderToComplete = w,
                                !.uploadedPhotos = <<>>,
                                !.completeDialogOpen = TRUE,
                                !.chosen = {}]
    /\ ServerUnchanged

\* handlePhotoUpload for one file: reader.readAsDataURL(file) is started
SelectPhoto ==
    /\ client.completeDialogOpen
    /\ client.nextPhoto <= MaxPhotos
    /\ client' = [client EXCEPT !.reading = @ \cup {client.nextPhoto},
                                !.chosen = @ \cup {client.nextPhoto},
                                !.nextPhoto = @ + 1]
    /\ ServerUnchanged

\* reader.onload: setUploadedPhotos(prev => [...prev, result])
PhotoLoaded(ph) ==
    /\ ph \in client.reading
    /\ client' = [client EXCEPT !.reading = @ \ {ph},
                                !.uploadedPhotos = Append(@, ph)]
    /\ ServerUnchanged

\* handleRemovePhoto(index)
RemovePhoto(index) ==
    /\ client.completeDialogOpen
    /\ index \in DOMAIN client.uploadedPhotos
    /\ client' = [client EXCEPT !.uploadedPhotos = RemoveAt(@, index),
                                !.chosen = @ \ {client.uploadedPhotos[index]}]
    /\ ServerUnchanged

\* the Annuleren button
CancelComplete ==
    /\ client.completeDialogOpen
    /\ client' = [client EXCEPT !.completeDialogOpen = FALSE,
                                !.uploadedPhotos = <<>>]
    /\ ServerUnchanged

\* the dialog's onOpenChange(false): Escape, the close button, a click
\* outside
DismissComplete ==
    /\ client.completeDialogOpen
    /\ client' = [client EXCEPT !.completeDialogOpen = FALSE]
    /\ ServerUnchanged

\* handleCompleteSubmit: the submit button is disabled while the mutation is
\* pending
CompleteSubmit ==
    /\ client.completeDialogOpen
    /\ ~client.isPending
    /\ client.workOrderToComplete # 0
    /\ client' = [client EXCEPT
                    !.isPending = TRUE,
                    !.sent = [id |-> client.workOrderToComplete,
                              photos |-> client.uploadedPhotos,
                              expected |-> client.chosen \ client.reading]]
    /\ ServerUnchanged

\* completeWorkOrderMutation.onSuccess
CompleteSucceeded ==
    /\ client.isPending
    /\ client' = [client EXCEPT !.isPending = FALSE,
                                !.completeDialogOpen = FALSE,
                                !.workOrderToComplete = 0,
                                !.uploadedPhotos = <<>>]
    /\ ServerUnchanged

\* completeWorkOrderMutation.onError: a toast
CompleteFailed ==
    /\ client.isPending
    /\ client' = [client EXCEPT !.isPending = FALSE]
    /\ ServerUnchanged

\* the useState values of WorkOrdersPage; workOrderToComplete 0 is null;
\* chosen is the set of photos selected since the dialog was opened and not
\* removed, expected those of them whose read had finished at the submit
InitComplete ==
    /\ ServerAside
    /\ client = [view |-> "complete", completeDialogOpen |-> FALSE,
                 workOrderToComplete |-> 0, uploadedPhotos |-> <<>>,
                 reading |-> {}, nextPhoto |-> 1, isPending |-> FALSE,
                 chosen |-> {}, sent |-> NotSent]

NextComplete ==
    \/ \E w \in Ids : OpenComplete(w)
    \/ SelectPhoto
    \/ \E ph \in 1..(MaxPhotos + 1) : PhotoLoaded(ph)
    \/ \E index \in 1..(MaxPhotos + 1) : RemovePhoto(index)
    \/ CancelComplete
    \/ DismissComplete
    \/ CompleteSubmit
    \/ CompleteSucceeded
    \/ CompleteFailed

SpecComplete == InitComplete /\ [][NextComplete]_vars

\* C27: the photos handleCompleteSubmit sends are exactly the photos that
\* were selected while the dialog was open for the work order submitted,
\* were not removed and had been read; a photo whose read ends after a
\* cancel, a submit or a reopening is in no later submission.
C27_SubmitsOwnPhotos ==
    (client.view = "complete" /\ client.sent # NotSent)
    => Range(client.sent.photos) = client.sent.expected
----------------------------------------------------------------------------
(* The client: the two route tables. *)

\* the paths of the route tables, and one that no route names
Paths == {"/auth", "/", "/werkbonnen", "/klanten", "/materialen", "/facturen",
          "/projecten"}

Spinner == [kind |-> "spinner"]

Page(name) == [kind |-> "page", name |-> name]

Redirect(to) == [kind |-> "redirect", to |-> to]

\* a user object, as useAuth yields it for a signed-in session
User(k) == [t |-> "object", id |-> k]

\* a table that shows the invoices page without looking at the user
AuthAwareRoutesOpenInvoices(user, isLoading, path) ==
    IF isLoading THEN Spinner
    ELSE CASE path = "/auth" -> IF Truthy(user) THEN Redirect("/") ELSE Page("AuthPage")
           [] path = "/" ->
                IF ~Truthy(user) THEN Redirect("/auth") ELSE Page("DashboardPage")
           [] path = "/werkbonnen" ->
                IF ~Truthy(user) THEN Redirect("/auth") ELSE Page("WorkOrdersPage")
           [] path = "/klanten" ->
                IF ~Truthy(user) THEN Redirect("/auth") ELSE Page("CustomersPage")
           [] path = "/materialen" ->
                IF ~Truthy(user) THEN Redirect("/auth") ELSE Page("MaterialsPage")
           [] path = "/facturen" -> Page("InvoicesPage")
           [] OTHER -> Page("NotFound")

\* AuthAwareRoutes of App.tsx: the spinner while the session is loading, then
\* the first route of the Switch whose path matches
AuthAwareRoutes(user, isLoading, path) ==
    IF isLoading THEN Spinner
    ELSE CASE path = "/auth" -> IF Truthy(user) THEN Redirect("/") ELSE Page("AuthPage")
           [] path = "/" ->
                IF ~Truthy(user) THEN Redirect("/auth") ELSE Page("DashboardPage")
           [] path = "/werkbonnen" ->
                IF ~Truthy(user) THEN Redirect("/auth") ELSE Page("WorkOrdersPage")
           [] path = "/klanten" ->
                IF ~Truthy(user) THEN Redirect("/auth") ELSE Page("CustomersPage")
           [] path = "/materialen" ->
                IF ~Truthy(user) THEN Redirect("/auth") ELSE Page("MaterialsPage")
           [] path = "/facturen" ->
                IF ~Truthy(user) THEN Redirect("/auth") ELSE Page("InvoicesPage")
           [] OTHER -> Page("NotFound")

\* Routes of Routes.tsx
Routes(user, isLoading, path) ==
    IF isLoading THEN Spinner
    ELSE CASE path = "/auth" -> IF Truthy(user) THEN Redirect("/") ELSE Page("AuthPage")
           [] path = "/" ->
                IF ~Truthy(user) THEN Redirect("/auth") ELSE Page("DashboardPage")
           [] path = "/werkbonnen" ->
                IF ~Truthy(user) THEN Redirect("/auth") ELSE Page("WorkOrdersPage")
           [] path = "/klanten" ->
                IF ~Truthy(user) THEN Redirect("/auth") ELSE Page("CustomersPage")
           [] path = "/materialen" ->
                IF ~Truthy(user) THEN Redirect("/auth") ELSE Page("MaterialsPage")
           [] path = "/facturen" ->
                IF ~Truthy(user) THEN Redirect("/auth") ELSE Page("InvoicesPage")
           [] OTHER -> Page("NotFound")

\* the component re-renders with the state it is given
Rendered(cl) ==
    [cl EXCEPT !.shown = IF cl.table = "AuthAwareRoutes"
                         THEN AuthAwareRoutes(cl.user, cl.isLoading, cl.path)
                         ELSE Routes(cl.user, cl.isLoading, cl.path)]

\* useAuth: the session query settles, with a user or with none
AuthLoaded(user) ==
    /\ client.isLoading
    /\ client' = Rendered([client EXCEPT !.isLoading = FALSE, !.user = user])
    /\ ServerUnchanged

\* loginMutation / registerMutation of the AuthPage went through
LoggedIn(user) ==
    /\ client.shown = Page("AuthPage")
    /\ client' = Rendered([client EXCEPT !.user = user])
    /\ ServerUnchanged

\* logoutMutation went through
LoggedOut ==
    /\ ~client.isLoading
    /\ client.user # Null
    /\ client' = Rendered([client EXCEPT !.user = Null])
    /\ ServerUnchanged

\* a link or the address bar
Navigate(path) ==
    /\ client' = Rendered([client EXCEPT !.path = path, !.back = client.path])
    /\ ServerUnchanged

\* <Redirect to=...> navigates
FollowRedirect ==
    /\ client.shown.kind = "redirect"
    /\ client' = Rendered([client EXCEPT !.path = client.shown.to,
                                         !.back = client.path])
    /\ ServerUnchanged

\* the browser's Back button
GoBack ==
    /\ client' = Rendered([client EXCEPT !.path = client.back,
                                         !.back = client.path])
    /\ ServerUnchanged

\* the application is opened at some path; the session is being fetched
InitRoutes ==
    /\ ServerAside
    /\ \E table \in {"AuthAwareRoutes", "Routes"}, path \in Paths :
         client = Rendered([view |-> "routes", table |-> table, isLoading |-> TRUE,
                            user |-> Null, path |-> path, back |-> path,
                            shown |-> Spinner])

NextRoutes ==
    \/ \E user \in {Null} \cup {User(k) : k \in Ids} : AuthLoaded(user)
    \/ \E k \in Ids : LoggedIn(User(k))
    \/ LoggedOut
    \/ \E path \in Paths : Navigate(path)
    \/ FollowRedirect
    \/ GoBack

SpecRoutes == InitRoutes /\ [][NextRoutes]_vars

\* the page of a path behind the sign-in
PageOf(path) ==
    CASE path = "/" -> "DashboardPage"
      [] path = "/werkbonnen" -> "WorkOrdersPage"
      [] path = "/klanten" -> "CustomersPage"
      [] path = "/materialen" -> "MaterialsPage"
      [] path = "/facturen" -> "InvoicesPage"

\* C28: in both route tables, while isLoading only the spinner is rendered;
\* once it is false, each of /, /werkbonnen, /klanten, /materialen and
\* /facturen renders its page when user is non-null and a redirect to /auth
\* otherwise, and /auth renders the AuthPage when user is null and a redirect
\* to / otherwise.
C28_RoutesGuarded ==
    client.view = "routes"
    => IF client.isLoading THEN client.shown = Spinner
       ELSE /\ client.path \in {"/", "/werkbonnen", "/klanten", "/materialen",
                                "/facturen"}
               => client.shown = IF client.user # Null
                                 THEN Page(PageOf(client.path))
                                 ELSE Redirect("/auth")
            /\ client.path = "/auth"
               => client.shown = IF client.user = Null THEN Page("AuthPage")
                                 ELSE Redirect("/")

\* a signed-out visitor of the invoices path is being redirected
C28_Witness ==
    /\ client.view = "routes"
    /\ ~client.isLoading /\ client.user = Null
    /\ client.path = "/facturen"
    /\ client.shown = Redirect("/auth")
====
